---- MODULE Spec2Model ----
(***************************************************************************)
(* A model of the rewrite engine of includes/rust_rewrite: the rule loop   *)
(* of ExprGroup::rewrite, the condition guard ExprGroup::match_conditions  *)
(* and the group iteration of Engine::rewrite_ctx.                         *)
(*                                                                         *)
(* Strings are sequences of one-character strings.  Indexes into a rule    *)
(* list are 0-based as in the source; rules[j + 1] is the rule at index j. *)
(***************************************************************************)
EXTENDS Integers, Sequences, FiniteSets, TLC

\* ------------------------------------------------------------------ bounds
\* Longest rule list of a group whose rule lists are enumerated.
MaxRules == 3
\* Largest configured max_iterations below the default.
MaxIter == 2
\* Longest condition list of a group whose condition lists are enumerated.
MaxConds == 2
\* Longest group list of an engine built from the group catalogue.
MaxGroups == 3

\* ExprGroup::new: max_iterations: 10
DefaultMaxIterations == 10

\* ----------------------------------------------------------------- strings
None == [none |-> TRUE]

Contains(s, c) == \E i \in 1..Len(s) : s[i] = c

\* Position of the first c in s, 0 when there is none.
IndexOf(s, c) ==
    IF Contains(s, c) THEN CHOOSE i \in 1..Len(s) : s[i] = c /\ \A j \in 1..(i - 1) : s[j] # c
    ELSE 0

\* Position of the leftmost occurrence of lit in s, 0 when there is none.
Find(s, lit) ==
    LET starts == {i \in 1..(Len(s) - Len(lit) + 1) : SubSeq(s, i, i + Len(lit) - 1) = lit}
    IN IF starts = {} THEN 0 ELSE CHOOSE i \in starts : \A j \in starts : i <= j

\* extra.rs split_query: the text before the first '?' and the text after it.
split_query(u) ==
    LET i == IndexOf(u, "?")
    IN IF i = 0 THEN <<u, <<>>>> ELSE <<SubSeq(u, 1, i - 1), SubSeq(u, i + 1, Len(u))>>

\* A variant of join_query that always joins with "?".
join_query_mark(u, q) ==
    IF q = <<>> THEN u ELSE Append(u, "?") \o q

\* extra.rs join_query
join_query(u, q) ==
    IF q = <<>> THEN u
    ELSE (IF Contains(u, "?") THEN Append(u, "&") ELSE Append(u, "?")) \o q

\* ------------------------------------------------------------------- rules
\* rule.rs ESCAPE, restricted to the characters of the model's alphabet:
\* the bytes utf8_percent_encode replaces and their two hex digits.
ESCAPE ==
    [c \in {"/", "?", "=", "&"} |->
        CASE c = "/" -> <<"%", "2", "F">>
          [] c = "?" -> <<"%", "3", "F">>
          [] c = "=" -> <<"%", "3", "D">>
          [] c = "&" -> <<"%", "2", "6">>]

RECURSIVE utf8_percent_encode(_)
utf8_percent_encode(s) ==
    IF s = <<>> THEN <<>>
    ELSE (IF Head(s) \in DOMAIN ESCAPE THEN ESCAPE[Head(s)] ELSE <<Head(s)>>)
         \o utf8_percent_encode(Tail(s))

\* A compiled pattern is [anchor, lit, cap, name]: the regex  ^?lit(.*)?
\* searched leftmost in the uri, its group written (?P<name>.*) when name is
\* not empty.  captures gives the span of the match: None when the pattern
\* does not match, else group 1 (None when the pattern has no group) and the
\* name of the group.
captures(pattern, u) ==
    LET at == IF pattern.anchor
              THEN (IF Len(u) >= Len(pattern.lit)
                       /\ SubSeq(u, 1, Len(pattern.lit)) = pattern.lit THEN 1 ELSE 0)
              ELSE Find(u, pattern.lit)
    IN IF at = 0 THEN None
       ELSE [none |-> FALSE,
             name |-> pattern.name,
             g1 |-> IF pattern.cap
                    THEN [none |-> FALSE, s |-> SubSeq(u, at + Len(pattern.lit), Len(u))]
                    ELSE None]

\* Flags are [kind, name, arg]: Shift(End|Last|Next|Skip(arg)),
\* Mod(NoEscape), Resolve(Redirect(arg)|Status(arg)).
Flag(kind, name, arg) == [kind |-> kind, name |-> name, arg |-> arg]

\* The first flag of the kind in the rule's flag list, None when absent.
FindFlag(flags, kind) ==
    LET at == {i \in 1..Len(flags) : flags[i].kind = kind}
    IN IF at = {} THEN None
       ELSE [none |-> FALSE, flag |-> flags[CHOOSE i \in at : \A j \in at : i <= j]]

\* Rule::shift
shift(rule) == FindFlag(rule.flags, "Shift")

\* Rule::resolve
resolve(rule) == FindFlag(rule.flags, "Resolve")

\* A variant of interpolate that percent-encodes the whole result, the
\* text of the template included.
RECURSIVE interpolate_encoded(_, _, _)
interpolate_encoded(rewrite, caps, noescape) ==
    IF rewrite = <<>> THEN <<>>
    ELSE (IF Head(rewrite) = "$1" \/ (Head(rewrite) = "$name" /\ caps.name = "name")
          THEN (IF caps.g1.none THEN <<>>
                ELSE IF noescape THEN caps.g1.s
                ELSE utf8_percent_encode(caps.g1.s))
          ELSE IF Head(rewrite) = "$name" THEN <<>>
          ELSE IF noescape THEN <<Head(rewrite)>>
          ELSE utf8_percent_encode(<<Head(rewrite)>>))
         \o interpolate_encoded(Tail(rewrite), caps, noescape)

\* util::interpolate::string with the append closure and the name_to_index
\* closure of try_rewrite: the template is a sequence of characters and of
\* the references "$1" and "$name"; a reference to a group the pattern
\* does not have appends nothing.
RECURSIVE interpolate(_, _, _)
interpolate(rewrite, caps, noescape) ==
    IF rewrite = <<>> THEN <<>>
    ELSE (IF Head(rewrite) = "$1" \/ (Head(rewrite) = "$name" /\ caps.name = "name")
          THEN (IF caps.g1.none THEN <<>>
                ELSE IF noescape THEN caps.g1.s
                ELSE utf8_percent_encode(caps.g1.s))
          ELSE IF Head(rewrite) = "$name" THEN <<>>
          ELSE <<Head(rewrite)>>)
         \o interpolate(Tail(rewrite), caps, noescape)

\* Rule::try_rewrite: None when the pattern does not match, else the
\* interpolated rewrite template.
try_rewrite(rule, u) ==
    LET caps == captures(rule.pattern, u)
        noescape == \E i \in 1..Len(rule.flags) :
                        rule.flags[i].kind = "Mod" /\ rule.flags[i].name = "NoEscape"
    IN IF caps.none THEN None
       ELSE [none |-> FALSE, s |-> interpolate(rule.rewrite, caps, noescape)]

\* str::to_lowercase on a text of ASCII characters.
to_lowercase(s) ==
    LET upper == <<"A", "B", "C", "D", "E", "F", "G", "H", "I", "J", "K", "L", "M",
                   "N", "O", "P", "Q", "R", "S", "T", "U", "V", "W", "X", "Y", "Z">>
        lower == <<"a", "b", "c", "d", "e", "f", "g", "h", "i", "j", "k", "l", "m",
                   "n", "o", "p", "q", "r", "s", "t", "u", "v", "w", "x", "y", "z">>
    IN [i \in 1..Len(s) |->
           IF \E k \in 1..26 : upper[k] = s[i]
           THEN lower[CHOOSE k \in 1..26 : upper[k] = s[i]] ELSE s[i]]

\* -------------------------------------------------------------- conditions
Digits == <<"0", "1", "2", "3", "4", "5", "6", "7", "8", "9">>

IsDigit(c) == \E d \in 1..10 : Digits[d] = c

\* \w restricted to the model's alphabet: upper-case letters, digits and '_'.
IsWord(c) ==
    \/ IsDigit(c)
    \/ c \in {"A", "D", "E", "I", "M", "N", "O", "P", "Q", "R", "S", "T", "U", "V", "_"}

\* Length of the match of MATCHER  %\{\w+\}  starting at position i of s, 0
\* when it does not match there.
MatcherAt(s, i) ==
    IF i + 1 <= Len(s) /\ s[i] = "%" /\ s[i + 1] = "{"
    THEN LET stops == {j \in (i + 2)..Len(s) : ~IsWord(s[j])}
             stop == IF stops = {} THEN 0 ELSE CHOOSE j \in stops : \A k \in stops : j <= k
         IN IF stop > i + 2 /\ s[stop] = "}" THEN stop - i + 1 ELSE 0
    ELSE 0

\* MATCHER.find_iter(expr).map(|c| expr[c.range()]): the matched references,
\* leftmost first, not overlapping.
RECURSIVE find_iter(_, _)
find_iter(expr, i) ==
    IF i > Len(expr) THEN <<>>
    ELSE LET n == MatcherAt(expr, i)
         IN IF n = 0 THEN find_iter(expr, i + 1)
            ELSE <<SubSeq(expr, i, i + n - 1)>> \o find_iter(expr, i + n)

\* str::replace: every occurrence of the non-empty text from, left to right
\* and not overlapping, replaced by to.
RECURSIVE replace(_, _, _)
replace(s, from, to) ==
    IF Len(s) < Len(from) THEN s
    ELSE IF SubSeq(s, 1, Len(from)) = from
         THEN to \o replace(SubSeq(s, Len(from) + 1, Len(s)), from, to)
         ELSE <<Head(s)>> \o replace(Tail(s), from, to)

SERVER_PORT == <<"S", "E", "R", "V", "E", "R", "_", "P", "O", "R", "T">>
SERVER_NAME == <<"S", "E", "R", "V", "E", "R", "_", "N", "A", "M", "E">>

\* ServerCtx::fill with the get! macro: a key of the provider gives Some(value),
\* the empty string when the attribute is not set; another key gives None.
ServerCtx_fill(provider, key) ==
    CASE key = SERVER_PORT ->
           [none |-> FALSE,
            s |-> IF provider.server_port.none THEN <<>> ELSE provider.server_port.s]
      [] key = SERVER_NAME ->
           [none |-> FALSE,
            s |-> IF provider.server_name.none THEN <<>> ELSE provider.server_name.s]
      [] OTHER -> None

\* EnvCtx::default() in a process whose environment is vars, a set of
\* <<name, value>> pairs: the provider's map, a set of <<key, value>>
\* pairs, is empty.
EnvCtx(vars) == [cache |-> {}, vars |-> vars]

\* The value of the key k in the set of pairs m, None when m has no such key.
get(m, k) ==
    IF \E e \in m : e[1] = k
    THEN [none |-> FALSE, s |-> (CHOOSE e \in m : e[1] = k)[2]]
    ELSE None

\* EnvCtx::fill: the value returned and the provider's map after the call.
EnvCtx_fill(provider, key) ==
    LET i == IndexOf(key, ":")
        prefix == SubSeq(key, 1, i - 1)
        env == SubSeq(key, i + 1, Len(key))
        val == get(provider.vars, env)
    IN IF i = 0 THEN [ret |-> None, cache |-> provider.cache]
       ELSE IF ~get(provider.cache, key).none
       THEN [ret |-> get(provider.cache, key), cache |-> provider.cache]
       ELSE IF to_lowercase(prefix) # <<"e", "n", "v">>
       THEN [ret |-> None, cache |-> provider.cache]
       ELSE IF val.none THEN [ret |-> None, cache |-> provider.cache]
       ELSE [ret |-> val, cache |-> provider.cache \cup {<<key, val.s>>}]

\* ContextProvider::fill of a provider of the EngineCtx.
ContextProvider_fill(provider, key) ==
    IF "vars" \in DOMAIN provider THEN EnvCtx_fill(provider, key).ret
    ELSE ServerCtx_fill(provider, key)

\* EngineCtx::fill: the value of the first provider that has one, else "".
RECURSIVE fill(_, _)
fill(ctx0, key) ==
    IF ctx0 = <<>> THEN <<>>
    ELSE LET v == ContextProvider_fill(Head(ctx0), key)
         IN IF v.none THEN fill(Tail(ctx0), key) ELSE v.s

\* key.trim_matches(|c| ['%', '{', '}'].contains(&c))
RECURSIVE trim_matches(_)
trim_matches(key) ==
    IF key = <<>> THEN key
    ELSE IF Head(key) \in {"%", "{", "}"} THEN trim_matches(Tail(key))
    ELSE IF key[Len(key)] \in {"%", "{", "}"} THEN trim_matches(SubSeq(key, 1, Len(key) - 1))
    ELSE key

\* The fold of EngineCtx::replace_all over the references found in expr.
RECURSIVE replace_fold(_, _, _)
replace_fold(acc, keys, ctx0) ==
    IF keys = <<>> THEN acc
    ELSE replace_fold(replace(acc, Head(keys), fill(ctx0, trim_matches(Head(keys)))),
                      Tail(keys), ctx0)

\* EngineCtx::replace_all
replace_all(ctx0, expr) == replace_fold(expr, find_iter(expr, 1), ctx0)

\* i32::MAX, the largest value parse::<i32> accepts.
I32Max == 2147483647

DigitOf(c) == (CHOOSE d \in 1..10 : Digits[d] = c) - 1

\* The checked accumulation of str::parse::<i32>: digit by digit, upward for a
\* positive number and downward for a negative one, None on overflow.
RECURSIVE checked_digits(_, _, _)
checked_digits(ds, acc, neg) ==
    IF ds = <<>> THEN [none |-> FALSE, v |-> acc]
    ELSE LET d == DigitOf(Head(ds))
         IN IF neg
            THEN (IF acc < 0 - (I32Max \div 10)
                     \/ (acc = 0 - (I32Max \div 10) /\ d > (I32Max % 10) + 1)
                  THEN None ELSE checked_digits(Tail(ds), acc * 10 - d, neg))
            ELSE (IF acc > I32Max \div 10 \/ (acc = I32Max \div 10 /\ d > I32Max % 10)
                  THEN None ELSE checked_digits(Tail(ds), acc * 10 + d, neg))

\* str::parse::<i32>: an optional sign and at least one digit, within the
\* range of i32; None for any other text.
parse_i32(s) ==
    LET signed == s # <<>> /\ Head(s) \in {"+", "-"}
        digits == IF signed THEN Tail(s) ELSE s
    IN IF digits # <<>> /\ \A i \in 1..Len(digits) : IsDigit(digits[i])
       THEN checked_digits(digits, 0, signed /\ Head(s) = "-")
       ELSE None

\* A variant of compare whose -ne holds when an operand is no integer.
compare_lax(cp, first, second) ==
    LET a == parse_i32(first)
        b == parse_i32(second)
    IN IF a.none \/ b.none THEN cp = "NotEqual"
       ELSE CASE cp = "Equal" -> a.v = b.v
              [] cp = "GreaterThan" -> a.v > b.v
              [] cp = "GreaterOrEqual" -> a.v >= b.v
              [] cp = "LesserThan" -> a.v < b.v
              [] cp = "LesserOrEqual" -> a.v <= b.v
              [] cp = "NotEqual" -> a.v # b.v

\* Compare::compare
compare(cp, first, second) ==
    LET a == parse_i32(first)
        b == parse_i32(second)
    IN IF a.none \/ b.none THEN FALSE
       ELSE CASE cp = "Equal" -> a.v = b.v
              [] cp = "GreaterThan" -> a.v > b.v
              [] cp = "GreaterOrEqual" -> a.v >= b.v
              [] cp = "LesserThan" -> a.v < b.v
              [] cp = "LesserOrEqual" -> a.v <= b.v
              [] cp = "NotEqual" -> a.v # b.v

\* Condition::is_met for a Match::Compare(v1, cp, v2) matcher; Value::new
\* resolves both operands with replace_all (the NoCase wrapper does not change
\* the text that parse::<i32> reads).
is_met(cond, ctx0) ==
    compare(cond.matcher.cp, replace_all(ctx0, cond.matcher.v1),
            replace_all(ctx0, cond.matcher.v2))

\* Condition::is_or
is_or(cond) == \E i \in 1..Len(cond.flags) : cond.flags[i] = "Or"

\* Iterator::partition keeps the order of the conditions in both halves.
Partition(conds, want) == SelectSeq(conds, LAMBDA c : is_or(c) = want)

\* A variant of match_conditions that joins the two halves with "and".
match_conditions_and(group, ctx0) ==
    IF ~group.enabled THEN FALSE
    ELSE LET or == Partition(group.conditions, TRUE)
             and == Partition(group.conditions, FALSE)
         IN (\E i \in 1..Len(or) : is_met(or[i], ctx0))
            /\ (\A i \in 1..Len(and) : is_met(and[i], ctx0))

\* ExprGroup::match_conditions
match_conditions(group, ctx0) ==
    IF ~group.enabled THEN FALSE
    ELSE LET or == Partition(group.conditions, TRUE)
             and == Partition(group.conditions, FALSE)
         IN (\E i \in 1..Len(or) : is_met(or[i], ctx0))
            \/ (\A i \in 1..Len(and) : is_met(and[i], ctx0))

\* ------------------------------------------------------------------ results
\* expr.rs Rewrite, and Err(EngineError::TooManyIterations) of the Result.
Uri(u) == [tag |-> "Uri", uri |-> u, sc |-> 0]
EndUri(u) == [tag |-> "EndUri", uri |-> u, sc |-> 0]
Redirect(u, sc) == [tag |-> "Redirect", uri |-> u, sc |-> sc]
StatusCode(sc) == [tag |-> "StatusCode", uri |-> <<>>, sc |-> sc]
TooManyIterations == [tag |-> "Err", uri |-> <<>>, sc |-> 0]
\* No result yet: the call has not returned.
Pending == [tag |-> "Pending", uri |-> <<>>, sc |-> 0]

\* A variant of with_query that does not join the query to an EndUri.
with_query_drop(rw, q) ==
    CASE rw.tag = "Uri" -> Uri(join_query(rw.uri, q))
      [] rw.tag = "EndUri" -> EndUri(rw.uri)
      [] rw.tag = "Redirect" -> Redirect(join_query(rw.uri, q), rw.sc)
      [] rw.tag = "StatusCode" -> StatusCode(rw.sc)

\* Rewrite::with_query
with_query(rw, q) ==
    CASE rw.tag = "Uri" -> Uri(join_query(rw.uri, q))
      [] rw.tag = "EndUri" -> EndUri(join_query(rw.uri, q))
      [] rw.tag = "Redirect" -> Redirect(join_query(rw.uri, q), rw.sc)
      [] rw.tag = "StatusCode" -> StatusCode(rw.sc)

\* ------------------------------------------------------- ExprGroup::rewrite
\* A variant of find_map that takes the last matching rule, not the first.
find_map_last(rules, j, u) ==
    LET cands == {k \in j..(Len(rules) - 1) : ~try_rewrite(rules[k + 1], u).none}
    IN IF cands = {} THEN None
       ELSE LET k == CHOOSE m \in cands : \A n \in cands : m >= n
            IN [none |-> FALSE, index |-> k, new_uri |-> try_rewrite(rules[k + 1], u).s]

\* rules.iter().enumerate().skip(next_index).find_map(...): the first rule at
\* index j >= next_index whose try_rewrite gives Some, with its index and the
\* new uri; None when no such rule exists.
RECURSIVE find_map(_, _, _)
find_map(rules, j, u) ==
    IF j >= Len(rules) THEN None
    ELSE LET r == try_rewrite(rules[j + 1], u)
         IN IF r.none THEN find_map(rules, j + 1, u)
            ELSE [none |-> FALSE, index |-> j, new_uri |-> r.s]

\* A variant of the loop condition that allows one pass more.
loop_guard_le(iters, max_iterations) == iters <= max_iterations

\* The condition of the while loop.
loop_guard(iters, max_iterations) == iters < max_iterations

\* A variant of shifted_index whose Skip(n) forgets the matched rule itself.
shifted_index_short(rule, index) ==
    LET sh == shift(rule)
    IN IF sh.none THEN index + 1
       ELSE CASE sh.flag.name = "Next" -> 0
              [] sh.flag.name = "Skip" -> index + sh.flag.arg
              [] OTHER -> index + 1

\* A variant of shifted_index whose Next scans on from the matched rule.
shifted_index_stay(rule, index) ==
    LET sh == shift(rule)
    IN IF sh.none THEN index + 1
       ELSE CASE sh.flag.name = "Next" -> index
              [] sh.flag.name = "Skip" -> index + 1 + sh.flag.arg
              [] OTHER -> index + 1

\* next_index after the rule at index is applied: index + 1, changed by the
\* rule's Shift flag (Next: 0; Skip(n): index + 1 + n).
shifted_index(rule, index) ==
    LET sh == shift(rule)
    IN IF sh.none THEN index + 1
       ELSE CASE sh.flag.name = "Next" -> 0
              [] sh.flag.name = "Skip" -> index + 1 + sh.flag.arg
              [] OTHER -> index + 1

\* A variant of rule_outcome whose Redirect does not take the query back.
rule_outcome_bare(rule, new_uri, q) ==
    LET sh == shift(rule)
        rs == resolve(rule)
    IN IF ~sh.none
       THEN CASE sh.flag.name = "Last" -> [do |-> "break", value |-> Pending]
              [] sh.flag.name = "End" ->
                   [do |-> "return", value |-> with_query(EndUri(new_uri), q)]
              [] OTHER -> [do |-> "continue", value |-> Pending]
       ELSE IF ~rs.none
       THEN CASE rs.flag.name = "Status" ->
                   [do |-> "return", value |-> StatusCode(rs.flag.arg)]
              [] rs.flag.name = "Redirect" ->
                   [do |-> "return", value |-> Redirect(new_uri, rs.flag.arg)]
       ELSE [do |-> "continue", value |-> Pending]

\* What the loop body does after the rule is applied and uri is rewritten:
\* "continue" the loop, "break" out of it, or "return" a value.
rule_outcome(rule, new_uri, q) ==
    LET sh == shift(rule)
        rs == resolve(rule)
    IN IF ~sh.none
       THEN CASE sh.flag.name = "Last" -> [do |-> "break", value |-> Pending]
              [] sh.flag.name = "End" ->
                   [do |-> "return", value |-> with_query(EndUri(new_uri), q)]
              [] OTHER -> [do |-> "continue", value |-> Pending]
       ELSE IF ~rs.none
       THEN CASE rs.flag.name = "Status" ->
                   [do |-> "return", value |-> StatusCode(rs.flag.arg)]
              [] rs.flag.name = "Redirect" ->
                   [do |-> "return",
                    value |-> with_query(Redirect(new_uri, rs.flag.arg), q)]
       ELSE [do |-> "continue", value |-> Pending]

\* A variant of the match after the loop that compares with ">".
loop_result_gt(iters, max_iterations, u, q) ==
    IF iters > max_iterations THEN TooManyIterations
    ELSE with_query(Uri(u), q)

\* The match after the loop.
loop_result(iters, max_iterations, u, q) ==
    IF iters >= max_iterations THEN TooManyIterations
    ELSE with_query(Uri(u), q)

\* --------------------------------------------------- the inputs of the model
Rule(anchor, lit, cap, rewrite, flags) ==
    [pattern |-> [anchor |-> anchor, lit |-> lit, cap |-> cap, name |-> ""],
     rewrite |-> rewrite, flags |-> flags]

\* RewriteRule /b /c
RPlain == Rule(FALSE, <<"/", "b">>, FALSE, <<"/", "c">>, <<>>)
\* RewriteRule /b /a [L]
RLast == Rule(FALSE, <<"/", "b">>, FALSE, <<"/", "a">>, <<Flag("Shift", "Last", 0)>>)
\* RewriteRule ^/a /b [N]
RNext == Rule(TRUE, <<"/", "a">>, FALSE, <<"/", "b">>, <<Flag("Shift", "Next", 0)>>)
\* RewriteRule /(.*) /n/$1 [N]
RLoop == Rule(FALSE, <<"/">>, TRUE, <<"/", "n", "/", "$1">>, <<Flag("Shift", "Next", 0)>>)
\* RewriteRule ^/a /b [S=1]
RSkip == Rule(TRUE, <<"/", "a">>, FALSE, <<"/", "b">>, <<Flag("Shift", "Skip", 1)>>)
\* RewriteRule /c - [F]
RForbid == Rule(FALSE, <<"/", "c">>, FALSE, <<"-">>, <<Flag("Resolve", "Status", 403)>>)
\* RewriteRule ^/a /b [END]
REnd == Rule(TRUE, <<"/", "a">>, FALSE, <<"/", "b">>, <<Flag("Shift", "End", 0)>>)
\* RewriteRule /b(.*) /i?p=$1 [R=302]
RRedir == Rule(FALSE, <<"/", "b">>, TRUE, <<"/", "i", "?", "p", "=", "$1">>,
               <<Flag("Resolve", "Redirect", 302)>>)
\* RewriteRule ^/a(.*) /b?p=$1 [NE]
RQuery == Rule(TRUE, <<"/", "a">>, TRUE, <<"/", "b", "?", "p", "=", "$1">>,
               <<Flag("Mod", "NoEscape", 0)>>)

\* The rules of the enumerated rule lists.
RuleSet == {RPlain, RLast, RNext, RLoop, RSkip, RForbid, REnd, RRedir}

PortRef == <<"%", "{">> \o SERVER_PORT \o <<"}">>

Cond(cp, flags) ==
    [matcher |-> [v1 |-> PortRef, cp |-> cp, v2 |-> <<"4", "0", "0", "0">>],
     flags |-> flags]

\* RewriteCond %{SERVER_PORT} -ge 4000, -lt 4000, each also with [OR].
CondSet ==
    {Cond("GreaterOrEqual", <<>>), Cond("GreaterOrEqual", <<"Or">>),
     Cond("LesserThan", <<>>), Cond("LesserThan", <<"Or">>)}

\* ServerCtx::default().server_addr(addr) for the two ports of test_compare.
ServerCtx(port) ==
    [server_port |-> [none |-> FALSE, s |-> port],
     server_name |-> [none |-> FALSE, s |-> <<"h">>]]

\* EngineCtx::default(), and an EngineCtx holding one ServerCtx.
CtxSet ==
    {<<>>, <<ServerCtx(<<"4", "0", "0", "1">>)>>, <<ServerCtx(<<"3", "9", "9", "9">>)>>}

UriSet == {<<"/", "a">>, <<"/", "b", "?", "q">>, <<"/", "a", "/", "c", "?", "q">>}

MaxIterSet == (0..MaxIter) \cup {DefaultMaxIterations}

SeqsFrom(S, lo, hi) == UNION {[1..k -> S] : k \in lo..hi}

\* ExprGroup::new followed by ExprGroup::max_iterations(n).
Group(conditions, rules, enabled, n) ==
    [conditions |-> conditions, rules |-> rules, enabled |-> enabled,
     max_iterations |-> n]

\* Engines of one unconditional group, over every rule list.
RuleEngines ==
    {<<Group(<<>>, rs, TRUE, n)>> : rs \in SeqsFrom(RuleSet, 1, MaxRules), n \in MaxIterSet}

\* Engines of one group, over every condition list and both engine states.
CondEngines ==
    {<<Group(cs, <<RPlain>>, en, DefaultMaxIterations)>> :
        cs \in SeqsFrom(CondSet, 0, MaxConds), en \in BOOLEAN}

\* The groups of the engines of several groups: [conditions, rules, enabled].
GroupSet ==
    {<<<<>>, <<RLast, RPlain>>, TRUE>>,
     <<<<>>, <<REnd>>, TRUE>>,
     <<<<Cond("GreaterOrEqual", <<>>)>>, <<RRedir>>, TRUE>>,
     <<<<Cond("LesserThan", <<>>)>>, <<RNext, RForbid>>, TRUE>>,
     <<<<>>, <<RQuery>>, TRUE>>,
     <<<<>>, <<RPlain, RForbid>>, TRUE>>,
     <<<<>>, <<RNext>>, FALSE>>}

\* Engine::from_str(..).max_iterations(n): every group has the bound n.
ChainEngines ==
    {[i \in 1..Len(gs) |-> Group(gs[i][1], gs[i][2], gs[i][3], n)] :
        gs \in SeqsFrom(GroupSet, 0, MaxGroups), n \in MaxIterSet \ {0}}

\* RewriteRule /c - [flags]: the rewrite target is the literal "-".
RDash(flags) == Rule(FALSE, <<"/", "c">>, FALSE, <<"-">>, flags)

\* The "-" rule without a flag and with each Shift and Resolve flag.
DashSet ==
    {RDash(<<>>), RDash(<<Flag("Shift", "Last", 0)>>), RDash(<<Flag("Shift", "End", 0)>>),
     RDash(<<Flag("Shift", "Next", 0)>>), RDash(<<Flag("Shift", "Skip", 1)>>),
     RDash(<<Flag("Resolve", "Redirect", 302)>>), RForbid}

\* Engines of one unconditional group that starts with a "-" rule.
DashEngines ==
    {<<Group(<<>>, <<d, RPlain>>, TRUE, n)>> : d \in DashSet, n \in MaxIterSet}

EngineSet == RuleEngines \cup CondEngines \cup ChainEngines \cup DashEngines

\* --------------------------------------------------------------- rule flags
\* Most flags in a flag list whose flag lists are enumerated.
MaxFlags == 3

\* Result<T, E>
Ok(v) == [ok |-> TRUE, v |-> v]
Err(e) == [ok |-> FALSE, e |-> e]

\* str::trim on a text whose only whitespace is the space.
RECURSIVE trim(_)
trim(s) ==
    IF s = <<>> THEN s
    ELSE IF Head(s) = " " THEN trim(Tail(s))
    ELSE IF s[Len(s)] = " " THEN trim(SubSeq(s, 1, Len(s) - 1))
    ELSE s

\* str::split: the pieces of s between the occurrences of sep.
RECURSIVE split(_, _)
split(s, sep) ==
    LET i == IndexOf(s, sep)
    IN IF i = 0 THEN <<s>>
       ELSE <<SubSeq(s, 1, i - 1)>> \o split(SubSeq(s, i + 1, Len(s)), sep)

\* u16::MAX, the largest value u16::from_str accepts.
U16Max == 65535

\* rule.rs parse_int: the default for the empty text, else u16::from_str.
parse_int(s, default) ==
    LET digits == IF s # <<>> /\ Head(s) = "+" THEN Tail(s) ELSE s
        value[k \in 0..Len(digits)] ==
            IF k = 0 THEN 0
            ELSE IF value[k - 1] > U16Max THEN value[k - 1]
            ELSE value[k - 1] * 10 + DigitOf(digits[k])
    IN IF s = <<>> THEN Ok(default)
       ELSE IF digits = <<>> \/ \E i \in 1..Len(digits) : ~IsDigit(digits[i])
       THEN Err("ParseIntError")
       ELSE IF value[Len(digits)] > U16Max THEN Err("ParseIntError")
       ELSE Ok(value[Len(digits)])

\* rule.rs parse_status: parse_int, and the status must be in 100..600.
parse_status(s, default) ==
    LET status == parse_int(s, default)
    IN IF ~status.ok THEN status
       ELSE IF ~(status.v >= 100 /\ status.v < 600) THEN Err("InvalidFlagStatus")
       ELSE status

\* RuleFlag::from_str
RuleFlag_from_str(str) ==
    LET i == IndexOf(str, "=")
        p == to_lowercase(IF i = 0 THEN str ELSE SubSeq(str, 1, i - 1))
        s == IF i = 0 THEN <<>> ELSE SubSeq(str, i + 1, Len(str))
        flag_of(kind, name, n) == IF n.ok THEN Ok(Flag(kind, name, n.v)) ELSE n
    IN CASE p \in {<<"e">>, <<"e", "n", "d">>} -> Ok(Flag("Shift", "End", 0))
         [] p \in {<<"l">>, <<"l", "a", "s", "t">>} -> Ok(Flag("Shift", "Last", 0))
         [] p \in {<<"n">>, <<"n", "e", "x", "t">>} -> Ok(Flag("Shift", "Next", 0))
         [] p \in {<<"s">>, <<"s", "k", "i", "p">>} -> flag_of("Shift", "Skip", parse_int(s, 1))
         [] p \in {<<"i">>, <<"i", "n", "s", "e", "n", "s", "i", "t", "i", "v", "e">>,
                   <<"n", "c">>, <<"n", "o", "c", "a", "s", "e">>} ->
              Ok(Flag("Mod", "NoCase", 0))
         [] p \in {<<"n", "e">>, <<"n", "o", "e", "s", "c", "a", "p", "e">>} ->
              Ok(Flag("Mod", "NoEscape", 0))
         [] p \in {<<"r">>, <<"r", "e", "d", "i", "r", "e", "c", "t">>} ->
              flag_of("Resolve", "Redirect", parse_status(s, 302))
         [] p \in {<<"f">>, <<"f", "o", "r", "b", "i", "d", "d", "e", "n">>} ->
              Ok(Flag("Resolve", "Status", 403))
         [] p \in {<<"g">>, <<"g", "o", "n", "e">>} -> Ok(Flag("Resolve", "Status", 410))
         [] p = <<>> -> flag_of("Resolve", "Status", parse_status(s, 403))
         [] OTHER -> Err("InvalidFlag")

\* collect::<Result<Vec<_>, _>>(): the values, or the first error.
collect(results) ==
    LET bad == {i \in 1..Len(results) : ~results[i].ok}
    IN IF bad = {} THEN Ok([i \in 1..Len(results) |-> results[i].v])
       ELSE results[CHOOSE i \in bad : \A j \in bad : i <= j]

\* The trimmed, non-empty pieces of the text between the brackets.
flag_items(s) ==
    LET pieces == split(SubSeq(s, 2, Len(s) - 1), ",")
    IN SelectSeq([i \in 1..Len(pieces) |-> trim(pieces[i])], LAMBDA t : t # <<>>)

\* A variant of RuleFlagList::from_str that counts the Shift flags and the
\* Resolve flags each on their own.
RuleFlagList_from_str_each(s) ==
    IF s = <<>> \/ Head(s) # "[" \/ s[Len(s)] # "]" THEN Err("FlagsMissingBrackets")
    ELSE LET items == flag_items(s)
             flags == collect([i \in 1..Len(items) |-> RuleFlag_from_str(items[i])])
             count(kind) == Cardinality({i \in 1..Len(flags.v) : flags.v[i].kind = kind})
         IN IF ~flags.ok THEN flags
            ELSE IF flags.v = <<>> THEN Err("FlagsEmpty")
            ELSE IF count("Shift") > 1 \/ count("Resolve") > 1
            THEN Err("FlagsMutuallyExclusive")
            ELSE flags

\* RuleFlagList::from_str
RuleFlagList_from_str(s) ==
    IF s = <<>> \/ Head(s) # "[" \/ s[Len(s)] # "]" THEN Err("FlagsMissingBrackets")
    ELSE LET items == flag_items(s)
             flags == collect([i \in 1..Len(items) |-> RuleFlag_from_str(items[i])])
             count(kind) == Cardinality({i \in 1..Len(flags.v) : flags.v[i].kind = kind})
         IN IF ~flags.ok THEN flags
            ELSE IF flags.v = <<>> THEN Err("FlagsEmpty")
            ELSE IF count("Shift") + count("Resolve") > 1
            THEN Err("FlagsMutuallyExclusive")
            ELSE flags

\* ----------------------------------------------------------- rule text
\* A rule text is the sequence of its lines, a trimmed line the sequence of
\* its whitespace-separated tokens: <<>> is a blank line.  The conditions of
\* the lines have the form  operand comparator operand.
\* Most lines of rule text given to one engine.
MaxLines == 3

\* The tokens of the model's lines that start with "//".
CommentTokens == {"//", "//RewriteRule"}

\* str::to_lowercase on the identifiers and engine states of the lines.
ident_lowercase(tok) ==
    CASE tok = "RewriteRule" -> "rewriterule"
      [] tok = "RewriteCond" -> "rewritecond"
      [] tok = "RewriteEngine" -> "rewriteengine"
      [] tok = "RewriteBase" -> "rewritebase"
      [] tok = "Off" -> "off"
      [] OTHER -> tok

\* The characters of the flag tokens of the lines.
FlagText(tok) ==
    CASE tok = "[L]" -> <<"[", "L", "]">>
      [] tok = "[L,R]" -> <<"[", "L", ",", "R", "]">>

\* Rule::from_str up to the regex, which is kept as its text.
Rule_from_str(expr) ==
    IF Len(expr) < 1 THEN Err("MissingPattern")
    ELSE IF Len(expr) < 2 THEN Err("MissingRewrite")
    ELSE LET with_flags(flags) ==
                 IF ~flags.ok THEN flags
                 ELSE IF Len(expr) > 3 THEN Err("InvalidSuffix")
                 ELSE Ok([kind |-> "Rule", pattern |-> expr[1], rewrite |-> expr[2],
                          flags |-> flags.v])
         IN with_flags(IF Len(expr) >= 3 THEN RuleFlagList_from_str(FlagText(expr[3]))
                       ELSE Ok(<<>>))

\* Condition::from_str for tokens without quotes: the matcher is kept as
\* its tokens.
Condition_from_str(expr) ==
    IF Len(expr) < 1 THEN Err("EmptyExpression")
    ELSE IF Len(expr) < 2 THEN Err("MissingComparison")
    ELSE Ok([kind |-> "Condition", matcher |-> expr])

\* State::from_str on the rest of the line.
State_from_str(expr) ==
    IF Len(expr) # 1 THEN Err("InvalidStateRule")
    ELSE CASE ident_lowercase(expr[1]) = "on" -> Ok([kind |-> "State", state |-> "On"])
           [] ident_lowercase(expr[1]) = "off" -> Ok([kind |-> "State", state |-> "Off"])
           [] OTHER -> Err("InvalidStateRule")

\* Expression::from_str
Expression_from_str(line) ==
    IF Len(line) < 2 THEN Err("MissingIdentifier")
    ELSE LET ident == ident_lowercase(line[1])
             expr == Tail(line)
         IN CASE ident \in {"rule", "rewrite", "rewriterule"} -> Rule_from_str(expr)
              [] ident \in {"cond", "condition", "rewritecond"} -> Condition_from_str(expr)
              [] ident \in {"state", "engine", "rewriteengine"} -> State_from_str(expr)
              [] OTHER -> Err("InvalidIdentifier")

\* A variant of the loop of ExpressionList::from_str in which a condition
\* after a rule stays in the rule's group.
RECURSIVE from_str_loop_joined(_, _, _)
from_str_loop_joined(lines, list, group) ==
    IF lines = <<>>
    THEN Ok(SelectSeq(IF group # <<>> THEN Append(list, group) ELSE list,
                      LAMBDA g : g # <<>>))
    ELSE LET line == Head(lines)
             push(expr) ==
                 IF ~expr.ok THEN expr
                 ELSE IF expr.v.kind = "State"
                 THEN from_str_loop_joined(Tail(lines), Append(list, group), <<expr.v>>)
                 ELSE from_str_loop_joined(Tail(lines), list, Append(group, expr.v))
         IN IF line # <<>> /\ line[1] \in CommentTokens
            THEN from_str_loop_joined(Tail(lines), list, group)
            ELSE IF line = <<>>
            THEN from_str_loop_joined(Tail(lines), Append(list, group), <<>>)
            ELSE push(Expression_from_str(line))

\* A variant of the loop of ExpressionList::from_str in which a State does
\* not close the group before it.
RECURSIVE from_str_loop_open(_, _, _)
from_str_loop_open(lines, list, group) ==
    IF lines = <<>>
    THEN Ok(SelectSeq(IF group # <<>> THEN Append(list, group) ELSE list,
                      LAMBDA g : g # <<>>))
    ELSE LET line == Head(lines)
             push(expr) ==
                 IF ~expr.ok THEN expr
                 ELSE IF /\ expr.v.kind = "Condition"
                         /\ group # <<>>
                         /\ group[Len(group)].kind = "Rule"
                 THEN from_str_loop_open(Tail(lines), Append(list, group), <<expr.v>>)
                 ELSE from_str_loop_open(Tail(lines), list, Append(group, expr.v))
         IN IF line # <<>> /\ line[1] \in CommentTokens
            THEN from_str_loop_open(Tail(lines), list, group)
            ELSE IF line = <<>>
            THEN from_str_loop_open(Tail(lines), Append(list, group), <<>>)
            ELSE push(Expression_from_str(line))

\* The loop of ExpressionList::from_str over the lines left, and its end.
RECURSIVE from_str_loop(_, _, _)
from_str_loop(lines, list, group) ==
    IF lines = <<>>
    THEN Ok(SelectSeq(IF group # <<>> THEN Append(list, group) ELSE list,
                      LAMBDA g : g # <<>>))
    ELSE LET line == Head(lines)
             push(expr) ==
                 IF ~expr.ok THEN expr
                 ELSE IF \/ expr.v.kind = "State"
                                 \/ /\ expr.v.kind = "Condition"
                                    /\ group # <<>>
                                    /\ group[Len(group)].kind = "Rule"
                 THEN from_str_loop(Tail(lines), Append(list, group), <<expr.v>>)
                 ELSE from_str_loop(Tail(lines), list, Append(group, expr.v))
         IN IF line # <<>> /\ line[1] \in CommentTokens
            THEN from_str_loop(Tail(lines), list, group)
            ELSE IF line = <<>>
            THEN from_str_loop(Tail(lines), Append(list, group), <<>>)
            ELSE push(Expression_from_str(line))

\* ExpressionList::from_str
ExpressionList_from_str(text) == from_str_loop(text, <<>>, <<>>)

\* ExprGroup::new
ExprGroup_new(expressions) ==
    LET states == SelectSeq(expressions, LAMBDA e : e.kind = "State")
    IN Group(SelectSeq(expressions, LAMBDA e : e.kind = "Condition"),
             SelectSeq(expressions, LAMBDA e : e.kind = "Rule"),
             states = <<>> \/ states[Len(states)].state = "On",
             DefaultMaxIterations)

\* ExpressionList::groups
list_groups(list) == [i \in 1..Len(list) |-> ExprGroup_new(list[i])]

\* The lines of the rule texts.
LineSet ==
    {<<>>,
     <<"//RewriteRule", "/b", "/c">>,
     <<"RewriteRule", "/b", "/c">>,
     <<"rule", "/b", "/a", "[L]">>,
     <<"RewriteCond", "%{SERVER_PORT}", "-ge", "4000">>,
     <<"RewriteEngine", "on">>,
     <<"RewriteEngine", "Off">>,
     <<"RewriteBase", "/">>,
     <<"RewriteRule", "/b">>,
     <<"rule", "/b", "/a", "[L,R]">>}

\* Engine::default(), and an engine of one group with max_iterations(1).
LoadEngines ==
    {<<>>,
     <<[ExprGroup_new(<<Expression_from_str(<<"RewriteRule", "/b", "/c">>).v>>)
           EXCEPT !.max_iterations = 1]>>}

\* ------------------------------------------------------------ Match::parse
\* str::trim_start_matches(c)
RECURSIVE trim_start_matches(_, _)
trim_start_matches(s, c) ==
    IF s # <<>> /\ Head(s) = c THEN trim_start_matches(Tail(s), c) ELSE s

\* parse.rs matches_start: the first of the characters that s starts with.
matches_start(s, matches) ==
    LET hits == {i \in 1..Len(matches) : s # <<>> /\ Head(s) = matches[i]}
    IN IF hits = {} THEN None
       ELSE [none |-> FALSE, c |-> matches[CHOOSE i \in hits : \A j \in hits : i <= j]]

\* Pattern::from_str
Pattern_from_str(s) ==
    CASE s = <<"<">> -> Ok("Preceeds")
      [] s = <<">">> -> Ok("Follows")
      [] s = <<"=">> -> Ok("Equals")
      [] s = <<"<", "=">> -> Ok("PreceedsOrEquals")
      [] s = <<">", "=">> -> Ok("FollowsOrEquals")
      [] OTHER -> Err("InvalidPattern")

\* Compare::from_str
Compare_from_str(s) ==
    CASE s = <<"-", "e", "q">> -> Ok("Equal")
      [] s = <<"-", "g", "t">> -> Ok("GreaterThan")
      [] s = <<"-", "g", "e">> -> Ok("GreaterOrEqual")
      [] s = <<"-", "l", "t">> -> Ok("LesserThan")
      [] s = <<"-", "l", "e">> -> Ok("LesserOrEqual")
      [] s = <<"-", "n", "e">> -> Ok("NotEqual")
      [] OTHER -> Err("InvalidComparison")

\* FileTest::from_str
FileTest_from_str(s) ==
    CASE s = <<"-", "d">> -> Ok("Dir")
      [] s = <<"-", "f">> -> Ok("File")
      [] s \in {<<"-", "h">>, <<"-", "l">>} -> Ok("Symbolic")
      [] s = <<"-", "s">> -> Ok("SizedFile")
      [] s = <<"-", "x">> -> Ok("Executable")
      [] OTHER -> Err("InvalidFileTest")

\* A Match value: the variant, its operands and its operator.
Match(tag, first, op, second) ==
    [tag |-> tag, first |-> first, op |-> op, second |-> second]

\* Match::parse on the tokens of a condition; a FileTest has no second
\* operand.
Match_parse(tokens) ==
    IF Len(tokens) < 1 THEN Err("EmptyExpression")
    ELSE IF Len(tokens) < 2 THEN Err("MissingComparison")
    ELSE LET first == tokens[1]
             not == tokens[2] # <<>> /\ Head(tokens[2]) = "!"
             expr == trim_start_matches(tokens[2], "!")
             c == matches_start(expr, <<"<", ">", "=">>)
         IN IF ~c.none
            THEN LET second == SubSeq(expr, IndexOf(expr, c.c) + 1, Len(expr))
                     pattern == Pattern_from_str(SubSeq(expr, 1, Len(expr) - Len(second)))
                 IN IF ~pattern.ok THEN pattern
                    ELSE Ok(Match(IF not THEN "NotPattern" ELSE "Pattern",
                                  first, pattern.v, second))
            ELSE IF Len(tokens) >= 3 /\ ~(tokens[3] # <<>> /\ Head(tokens[3]) = "[")
            THEN (IF not THEN Err("InvalidComparison")
                  ELSE LET cmp == Compare_from_str(expr)
                       IN IF ~cmp.ok THEN cmp
                          ELSE Ok(Match("Compare", first, cmp.v, tokens[3])))
            ELSE LET ftest == FileTest_from_str(expr)
                 IN IF ~ftest.ok THEN ftest
                    ELSE Ok(Match(IF not THEN "NotFileTest" ELSE "FileTest",
                                  first, ftest.v, <<>>))

\* ------------------------------------------------------- Pattern::matches
\* Value::new(s, nocase, ctx): the resolved text, with the NoCase wrapper or
\* without it.
Value_new(s, nocase, ctx0) == [nocase |-> nocase, s |-> replace_all(ctx0, s)]

\* Value::starts_with: both variants call str::starts_with on the String the
\* value derefs to.
starts_with(first, second) ==
    /\ Len(second.s) <= Len(first.s)
    /\ SubSeq(first.s, 1, Len(second.s)) = second.s

\* Value::ends_with: both variants call str::ends_with on the String the
\* value derefs to.
ends_with(first, second) ==
    /\ Len(second.s) <= Len(first.s)
    /\ SubSeq(first.s, Len(first.s) - Len(second.s) + 1, Len(first.s)) = second.s

\* The derived PartialEq of Value: the same variant, and UniCase equality
\* (equal after case folding) under NoCase, String equality under Case.
Value_eq(first, second) ==
    /\ first.nocase = second.nocase
    /\ IF first.nocase THEN to_lowercase(first.s) = to_lowercase(second.s)
       ELSE first.s = second.s

\* Pattern::matches
Pattern_matches(pt, first, second) ==
    CASE pt \in {"Preceeds", "PreceedsOrEquals"} -> starts_with(first, second)
      [] pt \in {"Follows", "FollowsOrEquals"} -> ends_with(first, second)
      [] pt = "Equals" -> Value_eq(first, second)

\* Condition::is_met for a Match::Pattern(v1, pt, v2) matcher, and for a
\* Match::NotPattern when not is set.
is_met_pattern(cond, ctx0) ==
    LET nocase == \E i \in 1..Len(cond.flags) : cond.flags[i] = "NoCase"
        met == Pattern_matches(cond.matcher.pt, Value_new(cond.matcher.v1, nocase, ctx0),
                               Value_new(cond.matcher.v2, nocase, ctx0))
    IN IF cond.matcher.not THEN ~met ELSE met

\* ----------------------------------------------------------------- tokenize
\* The longest text, in characters, of a tokenize call.
MaxChars == 4

\* The length in bytes of the UTF-8 encoding of a character of the model.
len_utf8(c) == IF c = "U+00E9" THEN 2 ELSE 1

\* str::len: the length of s in bytes.
RECURSIVE len(_)
len(s) == IF s = <<>> THEN 0 ELSE len_utf8(Head(s)) + len(Tail(s))

\* The outcome of an operation that may abort: a value, or a panic.
Panic == [ok |-> FALSE, e |-> "panic"]

\* &s[from..to] on byte offsets: the characters between the two offsets; a
\* panic when from > to, to > s.len() or an offset is inside a character.
slice(s, from, to) ==
    LET at(b) == {k \in 0..Len(s) : len(SubSeq(s, 1, k)) = b}
    IN IF from <= to /\ at(from) # {} /\ at(to) # {}
       THEN Ok(SubSeq(s, (CHOOSE k \in at(from) : TRUE) + 1, CHOOSE k \in at(to) : TRUE))
       ELSE Panic

\* The loop of end_quote from the character position j of s on.
RECURSIVE end_quote_loop(_, _, _, _)
end_quote_loop(s, j, quote, backslashes) ==
    IF j >= Len(s) THEN None
    ELSE IF s[j + 1] = quote /\ backslashes % 2 = 0 THEN [none |-> FALSE, v |-> j]
    ELSE IF s[j + 1] = "\\" THEN end_quote_loop(s, j + 1, quote, backslashes + 1)
    ELSE end_quote_loop(s, j + 1, quote, 0)

\* end_quote(s, index, quote): the character position of the closing quote,
\* or UnclosedQuotation with the text from the byte offset index - 1 on.
end_quote(s, index, quote) ==
    LET r == end_quote_loop(s, index, quote, 0)
    IN IF ~r.none THEN Ok(r.v)
       ELSE IF slice(s, index - 1, len(s)).ok THEN Err("UnclosedQuotation")
       ELSE Panic

\* The locals of tokenize inside its while loop.
Tokenizing(index, expressions, expression) ==
    [running |-> TRUE, out |-> Ok(<<>>), index |-> index, expressions |-> expressions,
     expression |-> expression]

\* The value tokenize has returned, or the panic that ended it.
Tokenized(r) ==
    [running |-> FALSE, out |-> r, index |-> 0, expressions |-> <<>>, expression |-> <<>>]

\* The for loop of tokenize from the character position i on: the locals at
\* its end or at its break, or the error of end_quote.
RECURSIVE for_chars(_, _, _, _, _)
for_chars(s, i, index, expressions, expression) ==
    IF i >= Len(s) THEN Tokenizing(index, expressions, expression)
    ELSE LET c == s[i + 1]
         IN IF c = " " /\ expression = <<>>
            THEN for_chars(s, i + 1, i, expressions, expression)
            ELSE IF c = " "
            THEN for_chars(s, i + 1, i, Append(expressions, expression), <<>>)
            ELSE IF c = "'" \/ c = "\""
            THEN LET quoted(e) ==
                         IF ~e.ok THEN Tokenized(e)
                         ELSE IF ~slice(s, i + 1, e.v).ok THEN Tokenized(Panic)
                         ELSE Tokenizing(e.v + 1,
                                         Append(expressions, slice(s, i + 1, e.v).v),
                                         expression)
                 IN quoted(end_quote(s, i + 1, c))
            ELSE for_chars(s, i + 1, i, expressions, Append(expression, c))

\* The condition of the while loop, index < s.len() - 1, on usize: with an
\* empty text the subtraction wraps to usize::MAX in a build without overflow
\* checks (a build with them panics before the comparison).
while_index(index, length) == IF length = 0 THEN TRUE ELSE index < length - 1

\* One turn of the while loop of tokenize on the text s, or its end.
tokenize_step(s, build, st) ==
    IF len(s) = 0 /\ build = "debug" THEN Tokenized(Panic)
    ELSE IF while_index(st.index, len(s))
    THEN for_chars(s, st.index, st.index, st.expressions, st.expression)
    ELSE Tokenized(Ok(IF st.expression # <<>> THEN Append(st.expressions, st.expression)
                      ELSE st.expressions))

\* The characters of the texts: two letters, a space, the two quotes, a
\* backslash and U+00E9, a character of two bytes.
CharSet == {"a", "b", " ", "'", "\"", "\\", "U+00E9"}

\* ------------------------------------------- the inputs of the functions
\* The flags L, N, END, S=2, NC, NE, R, R=301, F, =404, " G", an unknown
\* flag and an empty piece.
FlagItemSet ==
    {<<"L">>, <<"N">>, <<"E", "N", "D">>, <<"S", "=", "2">>, <<"N", "C">>, <<"N", "E">>,
     <<"R">>, <<"R", "=", "3", "0", "1">>, <<"F">>, <<"=", "4", "0", "4">>, <<" ", "G">>,
     <<"X">>, <<>>}

\* [T]::join
RECURSIVE join(_, _)
join(items, sep) ==
    IF items = <<>> THEN <<>>
    ELSE IF Len(items) = 1 THEN items[1]
    ELSE items[1] \o <<sep>> \o join(Tail(items), sep)

\* The flag lists: the flags between brackets, and one flag without brackets.
FlagTexts ==
    {<<"[">> \o join(items, ",") \o <<"]">> : items \in SeqsFrom(FlagItemSet, 0, MaxFlags)}
        \cup {f \in FlagItemSet : f # <<>>}

\* The comparators of Compare.
CompareSet ==
    {"Equal", "GreaterThan", "GreaterOrEqual", "LesserThan", "LesserOrEqual", "NotEqual"}

\* The operands of the comparisons: %{SERVER_PORT}, 4000, -1, +7, the ends
\* of the range of i32, the numbers next to them, and texts that are no
\* numbers.
OperandSet ==
    {PortRef, <<"4", "0", "0", "0">>, <<"-", "1">>, <<"+", "7">>,
     <<"2", "1", "4", "7", "4", "8", "3", "6", "4", "7">>,
     <<"2", "1", "4", "7", "4", "8", "3", "6", "4", "8">>,
     <<"-", "2", "1", "4", "7", "4", "8", "3", "6", "4", "8">>,
     <<"-", "2", "1", "4", "7", "4", "8", "3", "6", "4", "9">>,
     <<"x">>, <<"4", "0", "x">>, <<"-">>}

\* The operators of Pattern.
PatternSet == {"Preceeds", "Follows", "Equals", "PreceedsOrEquals", "FollowsOrEquals"}

\* The operands of the pattern tests: /Test of test_pattern, its lower case,
\* prefixes and suffixes in both cases, and the empty text.
CaseOperandSet ==
    {<<"/", "T", "e", "s", "t">>, <<"/", "t", "e", "s", "t">>, <<"/", "T", "e">>,
     <<"/", "t", "E">>, <<"s", "t">>, <<"S", "T">>, <<"/", "N", "o", "t">>, <<>>}

\* %{SERVER_NAME}
NameRef == <<"%", "{">> \o SERVER_NAME \o <<"}">>

\* %{ENV:N}
EnvRef == <<"%", "{", "E", "N", "V", ":", "N", "}">>

\* The EngineCtx values of the replace_all calls: no provider; one ServerCtx;
\* two of them in both orders; ServerCtx::default() alone and before a
\* ServerCtx with an address; an EnvCtx (with_env) in a process where N is
\* set to v, alone and before a ServerCtx; and a ServerCtx whose server_name
\* is the text %{SERVER_PORT}.
ReplaceCtxSet ==
    LET a == ServerCtx(<<"4", "0", "0", "1">>)
        b == [ServerCtx(<<"3", "9", "9", "9">>) EXCEPT !.server_name.s = <<"g">>]
        d == [server_port |-> None, server_name |-> None]
        e == EnvCtx({<<<<"N">>, <<"v">>>>})
        x == [a EXCEPT !.server_name.s = PortRef]
    IN {<<>>, <<a>>, <<a, b>>, <<b, a>>, <<d>>, <<d, a>>, <<e>>, <<e, a>>, <<x>>}

\* The operands of the replace_all calls: one reference, a reference inside
\* other text, two references, one reference twice, a name no provider
\* knows, an unclosed reference, text without a reference, the empty text
\* and %{ENV:N}.
ReplaceExprSet ==
    {PortRef, <<"a">> \o NameRef \o <<"b">>, NameRef \o <<":">> \o PortRef,
     PortRef \o <<":">> \o NameRef, NameRef \o NameRef,
     <<"%", "{", "U", "}", "x">>, <<"%", "{", "P", "O", "R", "T">>,
     <<"1", "0", "0", "%">>, <<>>, EnvRef, EnvRef \o <<"/">> \o PortRef}

\* The environments of a process: N unset, N = v, N = w.
EnvSet == {{}, {<<<<"N">>, <<"v">>>>}, {<<<<"N">>, <<"w">>>>}}

\* The keys of the EnvCtx::fill calls: ENV:N, env:N, ENV:M, X:N and N.
EnvKeySet ==
    {<<"E", "N", "V", ":", "N">>, <<"e", "n", "v", ":", "N">>,
     <<"E", "N", "V", ":", "M">>, <<"X", ":", "N">>, <<"N">>}

\* The rules of the try_rewrite calls: the patterns /a, ^/a, /b(.*),
\* ^/b(.*) and /b(?P<name>.*), the templates /c, /i?p=$1, $1/$1, /$name
\* and /=$1&, without flags, with [NE] and with [L].
RewriteRuleSet ==
    {[Rule(anchor, lit, cap, rewrite, flags) EXCEPT !.pattern.name = name] :
        anchor \in BOOLEAN, lit \in {<<"/", "a">>, <<"/", "b">>}, cap \in BOOLEAN,
        name \in {"", "name"},
        rewrite \in {<<"/", "c">>, <<"/", "i", "?", "p", "=", "$1">>, <<"$1", "/", "$1">>,
                     <<"/", "$name">>, <<"/", "=", "$1", "&">>},
        flags \in {<<>>, <<Flag("Mod", "NoEscape", 0)>>, <<Flag("Shift", "Last", 0)>>}}

\* The uris of the try_rewrite calls.
RewriteUriSet ==
    UriSet \cup {<<"/", "b", "/", "c", "&", "d", "=", "e">>, <<"/", "x">>, <<"b", "/", "b">>,
                 <<>>}

\* The tokens after the first operand of a condition.
TokenSet ==
    {<<"<", "=", "a", "b">>, <<">", "=", "a", "b">>, <<"<", "a", "b">>, <<">", "a", "b">>,
     <<"=", "a", "b">>, <<"=">>, <<"!", "=", "a", "b">>, <<"!", "<", "=", "a", "b">>,
     <<"!", ">", "a", "b">>, <<"-", "e", "q">>, <<"-", "f">>, <<"!", "-", "f">>,
     <<"4", "0", "0", "0">>, <<"[", "O", "R", "]">>}

\* --------------------------------------------- evaluations on one engine
\* Threads that evaluate on one engine at the same time.
NumThreads == 2

\* The locals of an evaluation that is at the for loop of rewrite_ctx.
Evaluation(u, c) ==
    [pc |-> "engine", ctx |-> c, input |-> u,
     e_uri |-> split_query(u)[1], e_query |-> split_query(u)[2], gi |-> 1,
     uri |-> <<>>, query |-> <<>>, next_index |-> 0, iterations |-> 0,
     g_result |-> Pending, result |-> Pending, overlapped |-> FALSE]

\* The next step of the evaluation s on the groups gs: the steps SkipGroup,
\* EnterGroup, Pass, LoopCap, LoopResult, GroupReturn and EngineReturn as a
\* function of the locals.
rewrite_step(gs, s) ==
    CASE s.pc = "engine" ->
           IF s.gi > Len(gs)
           THEN [s EXCEPT !.result = with_query(Uri(s.e_uri), s.e_query), !.pc = "done"]
           ELSE IF ~match_conditions(gs[s.gi], s.ctx) THEN [s EXCEPT !.gi = @ + 1]
           ELSE [s EXCEPT !.pc = "loop", !.next_index = 0, !.iterations = 0,
                          !.uri = split_query(s.e_uri)[1],
                          !.query = split_query(s.e_uri)[2], !.g_result = Pending]
      [] s.pc = "loop" ->
           IF ~loop_guard(s.iterations, gs[s.gi].max_iterations)
           THEN [s EXCEPT !.pc = "after"]
           ELSE LET m == find_map(gs[s.gi].rules, s.next_index, s.uri)
                IN IF m.none THEN [s EXCEPT !.iterations = @ + 1, !.pc = "after"]
                   ELSE LET rule == gs[s.gi].rules[m.index + 1]
                            out == rule_outcome(rule, m.new_uri, s.query)
                        IN [s EXCEPT !.iterations = @ + 1,
                                     !.uri = m.new_uri,
                                     !.next_index = shifted_index(rule, m.index),
                                     !.g_result = out.value,
                                     !.pc = CASE out.do = "continue" -> "loop"
                                              [] out.do = "break" -> "after"
                                              [] out.do = "return" -> "ret"]
      [] s.pc = "after" ->
           [s EXCEPT !.pc = "ret",
                     !.g_result = loop_result(s.iterations, gs[s.gi].max_iterations,
                                              s.uri, s.query)]
      [] s.pc = "ret" ->
           IF s.g_result.tag = "Err" THEN [s EXCEPT !.result = s.g_result, !.pc = "done"]
           ELSE IF s.g_result.tag = "Uri"
           THEN [s EXCEPT !.e_uri = s.g_result.uri, !.gi = @ + 1, !.pc = "engine"]
           ELSE [s EXCEPT !.result = with_query(s.g_result, s.e_query), !.pc = "done"]

\* The result of the evaluation s when it runs to its end on the groups gs
\* with no other evaluation.
RECURSIVE rewrite_alone(_, _)
rewrite_alone(gs, s) ==
    IF s.pc = "done" THEN s.result ELSE rewrite_alone(gs, rewrite_step(gs, s))

\* The engines the threads share.
ConcEngines ==
    {[i \in 1..Len(gs) |-> Group(gs[i][1], gs[i][2], gs[i][3], DefaultMaxIterations)] :
        gs \in {<<<<<<>>, <<RNext>>, TRUE>>,
                  <<<<Cond("GreaterOrEqual", <<>>)>>, <<RRedir>>, TRUE>>>>,
                <<<<<<Cond("LesserThan", <<>>)>>, <<RPlain, RForbid>>, TRUE>>,
                  <<<<>>, <<RQuery>>, TRUE>>>>,
                <<<<<<>>, <<RLoop>>, TRUE>>>>}}

\* The uri and the EngineCtx of a thread.
ConcInputs == UriSet \X (CtxSet \ {<<>>})

\* The evaluation s has taken a step and has not returned.
running(s) == s.pc # "done" /\ s # Evaluation(s.input, s.ctx)

\* The threads after a step of the thread t that leaves it with the locals
\* s: an evaluation that was running during the step has overlapped it.
after_step(ths, t, s) ==
    [u \in DOMAIN ths |->
        IF u = t THEN s
        ELSE IF running(ths[u]) THEN [ths[u] EXCEPT !.overlapped = TRUE] ELSE ths[u]]

\* -------------------------------------------------------------------- state
VARIABLES
    groups,      \* Engine.groups
    pc,          \* "idle", "engine" (the for loop of rewrite_ctx), "loop" (the
                 \* while loop of ExprGroup::rewrite), "after" (past the loop),
                 \* "ret" (the group has returned), "done"
    ctx,         \* rewrite_ctx: the EngineCtx
    e_uri,       \* rewrite_ctx: uri
    e_query,     \* rewrite_ctx: query
    gi,          \* rewrite_ctx: position of the group iterator, from 1
    uri,         \* ExprGroup::rewrite: uri
    query,       \* ExprGroup::rewrite: query
    next_index,  \* ExprGroup::rewrite: next_index
    iterations,  \* ExprGroup::rewrite: iterations
    g_result,    \* the value ExprGroup::rewrite returned
    result,      \* the value rewrite_ctx returned
    \* history of the evaluation in progress
    exit,        \* why the while loop ended: "nomatch", "last", "cap", "return"
    passes,      \* loop bodies run by the current call of ExprGroup::rewrite
    applied,     \* the rules applied: [group, pass, cursor, index, before, after]
    evaluated,   \* the match_conditions calls: [group, met, path]
    calls,       \* the ExprGroup::rewrite calls: [group, input, result]
    input,       \* the uri rewrite_ctx was called with
    load,        \* the last call of Engine::add_rules: [text, result, lines], and
                 \* configured, the n of the last Engine::max_iterations(n)
                 \* call, -1 before the first
    call,        \* a call of a function without state: [fn, arg, ret, done]
    th           \* the locals of the rewrite_ctx call of every thread

vars == <<groups, pc, ctx, e_uri, e_query, gi, uri, query, next_index, iterations,
          g_result, result, exit, passes, applied, evaluated, calls, input, load, call, th>>

locals == <<uri, query, next_index, iterations>>
engine == <<ctx, e_uri, e_query, gi, input>>
\* The state of an evaluation, and the state outside the evaluations.
evaluation == <<pc, engine, locals, g_result, result, exit, passes, applied,
                evaluated, calls>>
outside == <<load, call, th>>

\* No call of add_rules yet, and no call of a function yet.
NoLoad == [text |-> <<>>, result |-> Ok(<<>>), lines |-> 0, configured |-> -1]
NoCall == [fn |-> "", arg |-> <<>>, ret |-> <<>>, done |-> FALSE]

\* No evaluation has started.
Idle ==
    /\ pc = "idle"
    /\ ctx = <<>>
    /\ e_uri = <<>>
    /\ e_query = <<>>
    /\ gi = 1
    /\ uri = <<>>
    /\ query = <<>>
    /\ next_index = 0
    /\ iterations = 0
    /\ g_result = Pending
    /\ result = Pending
    /\ exit = "none"
    /\ passes = 0
    /\ applied = <<>>
    /\ evaluated = <<>>
    /\ calls = <<>>
    /\ input = <<>>

Init ==
    /\ groups \in EngineSet
    /\ Idle
    /\ load = NoLoad
    /\ call = NoCall
    /\ th = <<>>

\* Engine::rewrite_ctx(uri, ctx), up to the for loop.
RewriteCtx(u, c) ==
    /\ pc \in {"idle", "done"}
    /\ pc' = "engine"
    /\ ctx' = c
    /\ e_uri' = split_query(u)[1]
    /\ e_query' = split_query(u)[2]
    /\ gi' = 1
    /\ uri' = <<>>
    /\ query' = <<>>
    /\ next_index' = 0
    /\ iterations' = 0
    /\ g_result' = Pending
    /\ result' = Pending
    /\ exit' = "none"
    /\ passes' = 0
    /\ applied' = <<>>
    /\ evaluated' = <<>>
    /\ calls' = <<>>
    /\ input' = u
    /\ UNCHANGED groups
    /\ UNCHANGED outside

\* The filter of the for loop rejects the group: match_conditions is false.
SkipGroup ==
    /\ pc = "engine"
    /\ gi <= Len(groups)
    /\ ~match_conditions(groups[gi], ctx)
    /\ gi' = gi + 1
    /\ evaluated' = Append(evaluated, [group |-> gi, met |-> FALSE, path |-> e_uri])
    /\ UNCHANGED <<groups, pc, ctx, e_uri, e_query, input, locals, g_result, result,
                   exit, passes, applied, calls>>
    /\ UNCHANGED outside

\* The filter accepts the group and the loop body calls group.rewrite(&uri),
\* which runs up to its while loop.
EnterGroup ==
    /\ pc = "engine"
    /\ gi <= Len(groups)
    /\ match_conditions(groups[gi], ctx)
    /\ pc' = "loop"
    /\ next_index' = 0
    /\ iterations' = 0
    /\ uri' = split_query(e_uri)[1]
    /\ query' = split_query(e_uri)[2]
    /\ g_result' = Pending
    /\ exit' = "none"
    /\ passes' = 0
    /\ evaluated' = Append(evaluated, [group |-> gi, met |-> TRUE, path |-> e_uri])
    /\ calls' = Append(calls, [group |-> gi, input |-> e_uri, result |-> Pending])
    /\ UNCHANGED <<groups, engine, result, applied>>
    /\ UNCHANGED outside

\* One run of the body of the while loop.
Pass ==
    /\ pc = "loop"
    /\ loop_guard(iterations, groups[gi].max_iterations)
    /\ iterations' = iterations + 1
    /\ passes' = passes + 1
    /\ LET m == find_map(groups[gi].rules, next_index, uri)
       IN IF m.none
          THEN /\ pc' = "after"
               /\ exit' = "nomatch"
               /\ UNCHANGED <<uri, next_index, g_result, applied>>
          ELSE LET rule == groups[gi].rules[m.index + 1]
                   out == rule_outcome(rule, m.new_uri, query)
               IN /\ uri' = m.new_uri
                  /\ next_index' = shifted_index(rule, m.index)
                  /\ applied' = Append(applied,
                        [group |-> gi, pass |-> iterations + 1, cursor |-> next_index,
                         index |-> m.index, before |-> uri, after |-> m.new_uri])
                  /\ pc' = CASE out.do = "continue" -> "loop"
                             [] out.do = "break" -> "after"
                             [] out.do = "return" -> "ret"
                  /\ exit' = CASE out.do = "continue" -> exit
                               [] out.do = "break" -> "last"
                               [] out.do = "return" -> "return"
                  /\ g_result' = out.value
    /\ UNCHANGED <<groups, engine, query, result, evaluated, calls>>
    /\ UNCHANGED outside

\* The condition of the while loop is false: the loop ends.
LoopCap ==
    /\ pc = "loop"
    /\ ~loop_guard(iterations, groups[gi].max_iterations)
    /\ pc' = "after"
    /\ exit' = "cap"
    /\ UNCHANGED <<groups, engine, locals, g_result, result, passes, applied,
                   evaluated, calls>>
    /\ UNCHANGED outside

\* The match after the loop gives the value ExprGroup::rewrite returns.
LoopResult ==
    /\ pc = "after"
    /\ pc' = "ret"
    /\ g_result' = loop_result(iterations, groups[gi].max_iterations, uri, query)
    /\ UNCHANGED <<groups, engine, locals, result, exit, passes, applied, evaluated,
                   calls>>
    /\ UNCHANGED outside

\* A variant of GroupReturn that does not pass the rewritten uri on.
GroupReturn_keep ==
    /\ pc = "ret"
    /\ calls' = [calls EXCEPT ![Len(calls)].result = g_result]
    /\ IF g_result.tag = "Err"
       THEN /\ result' = g_result
            /\ pc' = "done"
            /\ UNCHANGED <<e_uri, gi>>
       ELSE IF g_result.tag = "Uri"
       THEN /\ gi' = gi + 1
            /\ pc' = "engine"
            /\ UNCHANGED <<e_uri, result>>
       ELSE /\ result' = with_query(g_result, e_query)
            /\ pc' = "done"
            /\ UNCHANGED <<e_uri, gi>>
    /\ UNCHANGED <<groups, ctx, e_query, input, locals, g_result, exit, passes,
                   applied, evaluated>>
    /\ UNCHANGED outside

\* rewrite_ctx takes the value of group.rewrite(&uri)?: an error and every
\* value but Uri end the call, Uri gives the uri of the next group.
GroupReturn ==
    /\ pc = "ret"
    /\ calls' = [calls EXCEPT ![Len(calls)].result = g_result]
    /\ IF g_result.tag = "Err"
       THEN /\ result' = g_result
            /\ pc' = "done"
            /\ UNCHANGED <<e_uri, gi>>
       ELSE IF g_result.tag = "Uri"
       THEN /\ e_uri' = g_result.uri
            /\ gi' = gi + 1
            /\ pc' = "engine"
            /\ UNCHANGED result
       ELSE /\ result' = with_query(g_result, e_query)
            /\ pc' = "done"
            /\ UNCHANGED <<e_uri, gi>>
    /\ UNCHANGED <<groups, ctx, e_query, input, locals, g_result, exit, passes,
                   applied, evaluated>>
    /\ UNCHANGED outside

\* The for loop is over: Ok(Rewrite::Uri(uri).with_query(query)).
EngineReturn ==
    /\ pc = "engine"
    /\ gi > Len(groups)
    /\ result' = with_query(Uri(e_uri), e_query)
    /\ pc' = "done"
    /\ UNCHANGED <<groups, engine, locals, g_result, exit, passes, applied, evaluated,
                   calls>>
    /\ UNCHANGED outside

Next ==
    \/ \E u \in UriSet, c \in CtxSet : RewriteCtx(u, c)
    \/ SkipGroup
    \/ EnterGroup
    \/ Pass
    \/ LoopCap
    \/ LoopResult
    \/ GroupReturn
    \/ EngineReturn

Spec == Init /\ [][Next]_vars

\* ------------------------------------------------------- Engine::add_rules
\* A variant of add_rules that keeps the groups of the lines before the one
\* that fails to parse.
AddRules_partial(t) ==
    /\ load.lines + Len(t) <= MaxLines
    /\ LET list == ExpressionList_from_str(t)
           bad == {i \in 1..Len(t) : ~ExpressionList_from_str(SubSeq(t, 1, i)).ok}
           good == IF bad = {} THEN t
                   ELSE SubSeq(t, 1, (CHOOSE i \in bad : \A j \in bad : i <= j) - 1)
       IN /\ groups' = groups \o list_groups(ExpressionList_from_str(good).v)
          /\ load' = [text |-> t, result |-> list, lines |-> load.lines + Len(t),
                      configured |-> load.configured]
    /\ UNCHANGED <<evaluation, call, th>>

\* Engine::add_rules(t): the text is parsed, and its groups are appended
\* when every line parsed.
AddRules(t) ==
    /\ load.lines + Len(t) <= MaxLines
    /\ LET list == ExpressionList_from_str(t)
       IN /\ groups' = IF list.ok THEN groups \o list_groups(list.v) ELSE groups
          /\ load' = [text |-> t, result |-> list, lines |-> load.lines + Len(t),
                      configured |-> load.configured]
    /\ UNCHANGED <<evaluation, call, th>>

LoadInit ==
    /\ groups \in LoadEngines
    /\ Idle
    /\ load = NoLoad
    /\ call = NoCall
    /\ th = <<>>

\* str::split('\n') gives at least one line.
LoadNext == \E t \in SeqsFrom(LineSet, 1, MaxLines) : AddRules(t)

LoadSpec == LoadInit /\ [][LoadNext]_vars

\* -------------------------------------------------- Engine::max_iterations
\* Engine::max_iterations(n): every group of the engine gets the bound n.
MaxIterations(n) ==
    /\ groups' = [i \in 1..Len(groups) |-> [groups[i] EXCEPT !.max_iterations = n]]
    /\ load' = [load EXCEPT !.configured = n]
    /\ UNCHANGED <<evaluation, call, th>>

\* Engine::default()
ConfInit ==
    /\ groups = <<>>
    /\ Idle
    /\ load = NoLoad
    /\ call = NoCall
    /\ th = <<>>

\* The configuration calls in any order: max_iterations, and add_rules with
\* a text of one rule, of another rule, or with a text that does not parse.
ConfNext ==
    \/ \E n \in MaxIterSet : MaxIterations(n)
    \/ \E t \in {<<<<"RewriteRule", "/b", "/c">>>>, <<<<"rule", "/b", "/a", "[L]">>>>,
                 <<<<"RewriteRule", "/b">>>>} : AddRules(t)

ConfSpec == ConfInit /\ [][ConfNext]_vars

\* ------------------------------------------------ functions without state
\* A call that has not run yet.
Call(fn, arg) == [fn |-> fn, arg |-> arg, ret |-> <<>>, done |-> FALSE]

\* RuleFlagList::from_str(s)
ParseFlags ==
    /\ call.fn = "RuleFlagList::from_str" /\ ~call.done
    /\ call' = [call EXCEPT !.ret = RuleFlagList_from_str(call.arg), !.done = TRUE]
    /\ UNCHANGED <<groups, evaluation, load, th>>

\* Condition::is_met(ctx) of the condition  v1 cp v2
IsMet ==
    /\ call.fn = "Condition::is_met" /\ ~call.done
    /\ call' = [call EXCEPT !.done = TRUE,
                            !.ret = is_met([matcher |-> [v1 |-> call.arg.v1,
                                                         cp |-> call.arg.cp,
                                                         v2 |-> call.arg.v2],
                                            flags |-> <<>>], call.arg.ctx)]
    /\ UNCHANGED <<groups, evaluation, load, th>>

\* Match::parse(tokens)
MatchParse ==
    /\ call.fn = "Match::parse" /\ ~call.done
    /\ call' = [call EXCEPT !.ret = Match_parse(call.arg), !.done = TRUE]
    /\ UNCHANGED <<groups, evaluation, load, th>>

\* Condition::is_met(ctx) of the condition  v1 pt v2  or  v1 !pt v2
IsMetPattern ==
    /\ call.fn = "Condition::is_met pattern" /\ ~call.done
    /\ call' = [call EXCEPT !.done = TRUE,
                            !.ret = is_met_pattern([matcher |-> [v1 |-> call.arg.v1,
                                                                 pt |-> call.arg.pt,
                                                                 v2 |-> call.arg.v2,
                                                                 not |-> call.arg.not],
                                                    flags |-> call.arg.flags],
                                                   call.arg.ctx)]
    /\ UNCHANGED <<groups, evaluation, load, th>>

\* EngineCtx::replace_all(expr)
ReplaceAll ==
    /\ call.fn = "EngineCtx::replace_all" /\ ~call.done
    /\ call' = [call EXCEPT !.ret = replace_all(call.arg.ctx, call.arg.expr),
                            !.done = TRUE]
    /\ UNCHANGED <<groups, evaluation, load, th>>

\* EnvCtx::fill(key) twice on one provider; the environment of the process
\* is vars1 at the first call and vars2 at the second.
EnvFill ==
    /\ call.fn = "EnvCtx::fill" /\ ~call.done
    /\ LET first == EnvCtx_fill(EnvCtx(call.arg.vars1), call.arg.key)
           second == EnvCtx_fill([cache |-> first.cache, vars |-> call.arg.vars2],
                                 call.arg.key)
       IN call' = [call EXCEPT !.ret = <<first.ret, second.ret>>, !.done = TRUE]
    /\ UNCHANGED <<groups, evaluation, load, th>>

\* One turn of the while loop of tokenize(s), or its return.
Tokenize ==
    /\ call.fn = "tokenize" /\ ~call.done
    /\ Len(call.ret.expression) <= MaxChars
    /\ LET st == tokenize_step(call.arg.s, call.arg.build, call.ret)
       IN call' = [call EXCEPT !.ret = st, !.done = ~st.running]
    /\ UNCHANGED <<groups, evaluation, load, th>>

\* Rule::try_rewrite(uri)
TryRewrite ==
    /\ call.fn = "Rule::try_rewrite" /\ ~call.done
    /\ call' = [call EXCEPT !.ret = try_rewrite(call.arg.rule, call.arg.uri),
                            !.done = TRUE]
    /\ UNCHANGED <<groups, evaluation, load, th>>

\* One call of one function, on every input of the model.
CallInit ==
    /\ groups = <<>>
    /\ Idle
    /\ load = NoLoad
    /\ th = <<>>
    /\ \/ \E s \in FlagTexts : call = Call("RuleFlagList::from_str", s)
       \/ \E cp \in CompareSet, v1, v2 \in OperandSet, c \in CtxSet :
             call = Call("Condition::is_met", [cp |-> cp, v1 |-> v1, v2 |-> v2, ctx |-> c])
       \/ \E tokens \in SeqsFrom(TokenSet, 0, 2) :
             call = Call("Match::parse", <<<<"a">>>> \o tokens)
       \/ call = Call("Match::parse", <<>>)
       \/ \E rule \in RewriteRuleSet, u \in RewriteUriSet :
             call = Call("Rule::try_rewrite", [rule |-> rule, uri |-> u])
       \/ \E s \in SeqsFrom(CharSet, 0, MaxChars), build \in {"debug", "release"} :
             call = [Call("tokenize", [s |-> s, build |-> build])
                        EXCEPT !.ret = Tokenizing(0, <<>>, <<>>)]
       \/ \E c \in ReplaceCtxSet, expr \in ReplaceExprSet :
             call = Call("EngineCtx::replace_all", [ctx |-> c, expr |-> expr])
       \/ \E key \in EnvKeySet, vars1, vars2 \in EnvSet :
             call = Call("EnvCtx::fill", [key |-> key, vars1 |-> vars1, vars2 |-> vars2])
       \/ \E pt \in PatternSet, v1, v2 \in CaseOperandSet, not \in BOOLEAN,
             flags \in {<<>>, <<"NoCase">>, <<"NoCase", "Or">>} :
             call = Call("Condition::is_met pattern",
                         [pt |-> pt, v1 |-> v1, v2 |-> v2, not |-> not,
                          flags |-> flags, ctx |-> <<>>])

CallNext ==
    \/ ParseFlags
    \/ IsMet
    \/ MatchParse
    \/ IsMetPattern
    \/ ReplaceAll
    \/ EnvFill
    \/ Tokenize
    \/ TryRewrite

CallSpec == CallInit /\ [][CallNext]_vars

\* --------------------------------------------- evaluations on one engine
\* A variant of ThreadStep in which the pass counter belongs to the engine
\* and not to the evaluation: every thread sees the count of the last pass.
ThreadStep_shared(t) ==
    /\ th[t].pc # "done"
    /\ LET s == rewrite_step(groups, th[t])
       IN th' = [u \in DOMAIN th |->
                    IF u = t THEN s
                    ELSE [after_step(th, t, s)[u] EXCEPT !.iterations = s.iterations]]
    /\ UNCHANGED <<groups, evaluation, load, call>>

\* The thread t takes the next step of its rewrite_ctx call: it reads the
\* engine and writes its own locals.
ThreadStep(t) ==
    /\ th[t].pc # "done"
    /\ th' = after_step(th, t, rewrite_step(groups, th[t]))
    /\ UNCHANGED <<groups, evaluation, load, call>>

\* Every thread has called rewrite_ctx on the engine with its own uri and
\* its own EngineCtx.
ConcInit ==
    /\ groups \in ConcEngines
    /\ Idle
    /\ load = NoLoad
    /\ call = NoCall
    /\ th \in [1..NumThreads -> {Evaluation(in[1], in[2]) : in \in ConcInputs}]

ConcNext == \E t \in 1..NumThreads : ThreadStep(t)

ConcSpec == ConcInit /\ [][ConcNext]_vars

\* ------------------------------------------------------------------- claims
\* The group whose rewrite call is in progress or has just returned.
InGroup == pc \in {"loop", "after", "ret"}
Rules == groups[gi].rules
\* The rules applied by the current call of ExprGroup::rewrite.
AppliedHere == SelectSeq(applied, LAMBDA e : e.group = gi)
HasShift(rule, name) ==
    \E i \in 1..Len(rule.flags) : rule.flags[i].kind = "Shift" /\ rule.flags[i].name = name
HasKind(rule, kind) == \E i \in 1..Len(rule.flags) : rule.flags[i].kind = kind
\* A step that runs the body of the while loop once.
PassStep == pc = "loop" /\ passes' = passes + 1

\* C1: ExprGroup::rewrite returns Err(TooManyIterations) only when the loop
\* ended because the pass count reached max_iterations; when the loop ended
\* because a pass found no matching rule or a Last rule matched, it returns
\* Ok(Uri(path)) with the query re-attached (max_iterations >= 1).
C1_ErrOnlyAtCap ==
    (pc = "ret" /\ groups[gi].max_iterations >= 1) =>
        /\ (g_result.tag = "Err" => exit = "cap")
        /\ (exit \in {"nomatch", "last"} => g_result = Uri(join_query(uri, query)))

\* The steps a call of ExprGroup::rewrite has left at most: two for every
\* pass it may still run, one for the match after the loop.
C2_Measure ==
    CASE pc = "loop" -> 2 * (groups[gi].max_iterations - passes) + 2
      [] pc = "after" -> 1
      [] OTHER -> 0

\* C2: every call of ExprGroup::rewrite terminates (every step of the call
\* lowers a measure that is never negative), and it never runs more scan
\* passes than max_iterations.
C2_BoundedPasses ==
    /\ [](InGroup => passes <= groups[gi].max_iterations)
    /\ [][(pc = "loop" \/ pc = "after") => (0 <= C2_Measure' /\ C2_Measure' < C2_Measure)]_vars

\* C2 witness: a call that revisited a rule, stopped by the default bound.
C2_Witness ==
    /\ pc = "ret"
    /\ passes = DefaultMaxIterations
    /\ \E i, j \in 1..Len(AppliedHere) : i < j /\ AppliedHere[i].index = AppliedHere[j].index

\* C3: under the default bound of 10, a call in which every pass applied a
\* Next-flagged rule returns Err(TooManyIterations) after 10 passes, never a Uri.
C3_NextLoopOverflows ==
    (/\ pc = "ret"
     /\ groups[gi].max_iterations = DefaultMaxIterations
     /\ Len(AppliedHere) = passes
     /\ \A i \in 1..Len(AppliedHere) : HasShift(Rules[AppliedHere[i].index + 1], "Next"))
    => (g_result = TooManyIterations /\ passes = DefaultMaxIterations)

\* C3 witness: the call has returned after ten passes that each applied a
\* Next-flagged rule.
C3_Witness ==
    /\ pc = "ret"
    /\ groups[gi].max_iterations = DefaultMaxIterations
    /\ Len(AppliedHere) = DefaultMaxIterations
    /\ \A i \in 1..Len(AppliedHere) : HasShift(Rules[AppliedHere[i].index + 1], "Next")

\* C4: in every scan pass the rule applied is the lowest-index rule at or
\* after the scan cursor whose pattern matches the current path, and it is
\* the only rule applied in the pass; when no rule at or after the cursor
\* matches, none is applied.  After a rule without Shift or Resolve flag is
\* applied at index i, the cursor is i + 1 and the path is the rewritten one.
C4_FirstMatchWins ==
    [][PassStep =>
        LET cands == {j \in next_index..(Len(Rules) - 1) :
                          ~captures(Rules[j + 1].pattern, uri).none}
        IN IF cands = {} THEN applied' = applied /\ uri' = uri
           ELSE LET i == CHOOSE j \in cands : \A k \in cands : j <= k
                    e == applied'[Len(applied')]
                IN /\ Len(applied') = Len(applied) + 1
                   /\ SubSeq(applied', 1, Len(applied)) = applied
                   /\ e.index = i
                   /\ e.before = uri
                   /\ uri' = e.after
                   /\ (~HasKind(Rules[i + 1], "Shift") /\ ~HasKind(Rules[i + 1], "Resolve")
                         => next_index' = i + 1 /\ pc' = "loop")]_vars

\* C4 witness: a pass applied the rule at index 1 although the rule at index
\* 2 matches the path as well, and the rule at index 0 does not match.
C4_Witness ==
    /\ InGroup
    /\ Len(Rules) >= 3
    /\ \E k \in 1..Len(AppliedHere) :
          /\ AppliedHere[k].index = 1
          /\ AppliedHere[k].cursor = 0
          /\ ~captures(Rules[3].pattern, AppliedHere[k].before).none
          /\ ~HasKind(Rules[2], "Shift") /\ ~HasKind(Rules[2], "Resolve")

\* What C5 says match_conditions returns for the group g under the context c.
C5_Expected(g, c) ==
    /\ g.enabled
    /\ \/ \E i \in 1..Len(g.conditions) :
             /\ \E f \in 1..Len(g.conditions[i].flags) : g.conditions[i].flags[f] = "Or"
             /\ is_met(g.conditions[i], c)
       \/ \A i \in 1..Len(g.conditions) :
             (\A f \in 1..Len(g.conditions[i].flags) : g.conditions[i].flags[f] # "Or")
                 => is_met(g.conditions[i], c)

\* C5: match_conditions is false for a disabled group; for an enabled group
\* it is true exactly when some Or-flagged condition is met or every
\* condition without the Or flag is met, in any order of the conditions.
C5_MatchConditions ==
    \A k \in 1..Len(evaluated) :
        evaluated[k].met = C5_Expected(groups[evaluated[k].group], ctx)

\* C5 witness: an enabled group matched although its Or-flagged condition
\* is not met, because its condition without the Or flag is met.
C5_Witness ==
    \E k \in 1..Len(evaluated) :
        LET g == groups[evaluated[k].group]
        IN /\ evaluated[k].met
           /\ Len(g.conditions) = 2
           /\ \E i, j \in 1..2 :
                 /\ is_or(g.conditions[i]) /\ ~is_met(g.conditions[i], ctx)
                 /\ ~is_or(g.conditions[j]) /\ is_met(g.conditions[j], ctx)

\* The path and the query rewrite_ctx splits its argument into.
InputPath == split_query(input)[1]
InputQuery == split_query(input)[2]

\* C6: rewrite_ctx takes the groups in declaration order; a group whose
\* match_conditions is false applies no rule and leaves the path unchanged;
\* the path a group returns as Uri is the input of the next matching group;
\* when every matching group returned Uri, the engine returns Uri(final path)
\* with the original query re-attached.
C6_GroupsInOrder ==
    /\ \A k \in 1..Len(evaluated) :
          /\ evaluated[k].group = k
          /\ ~evaluated[k].met =>
                /\ \A a \in 1..Len(applied) : applied[a].group # k
                /\ k < Len(evaluated) => evaluated[k + 1].path = evaluated[k].path
    /\ \A c \in 1..Len(calls) :
          IF c = 1 THEN calls[c].input = InputPath
          ELSE calls[c - 1].result.tag = "Uri" /\ calls[c].input = calls[c - 1].result.uri
    /\ (pc = "done" /\ \A c \in 1..Len(calls) : calls[c].result.tag = "Uri") =>
          /\ Len(evaluated) = Len(groups)
          /\ result = Uri(join_query(IF calls = <<>> THEN InputPath
                                     ELSE calls[Len(calls)].result.uri, InputQuery))

\* C6 witness: an engine of three groups returned Uri: the first group
\* rewrote the path, the second did not match, the third rewrote the path
\* it got from the first, and the input had a query.
C6_Witness ==
    /\ pc = "done"
    /\ result.tag = "Uri"
    /\ InputQuery # <<>>
    /\ Len(evaluated) = 3
    /\ evaluated[1].met /\ ~evaluated[2].met /\ evaluated[3].met
    /\ calls[1].result.uri # InputPath
    /\ \E a \in 1..Len(applied) : applied[a].group = 3

\* C7: when a group returns EndUri, Redirect or StatusCode, rewrite_ctx
\* returns that result at once, the original query re-attached to EndUri and
\* Redirect and not to StatusCode; no condition and no rule of a later group
\* is evaluated, so a rule with the End flag is the last rule applied.
C7_ShortCircuit ==
    /\ \A a \in 1..Len(applied) :
          HasShift(groups[applied[a].group].rules[applied[a].index + 1], "End")
              => a = Len(applied) /\ pc \in {"ret", "done"}
    /\ (pc = "done" /\ calls # <<>>
        /\ calls[Len(calls)].result.tag \in {"EndUri", "Redirect", "StatusCode"}) =>
          LET last == calls[Len(calls)]
          IN /\ result.tag = last.result.tag
             /\ result.sc = last.result.sc
             /\ result.uri = IF last.result.tag = "StatusCode" THEN <<>>
                             ELSE join_query(last.result.uri, InputQuery)
             /\ Len(evaluated) = last.group
             /\ \A a \in 1..Len(applied) : applied[a].group <= last.group

\* C7 witness: a rule with the End flag ended the run of an engine whose
\* next group matches too, and the input had a query.
C7_Witness ==
    /\ pc = "done"
    /\ result.tag = "EndUri"
    /\ InputQuery # <<>>
    /\ calls[Len(calls)].group < Len(groups)
    /\ match_conditions(groups[calls[Len(calls)].group + 1], ctx)

\* C8: when a Last-flagged rule matches, the group applies no further rule
\* and returns Uri(rewritten path), and rewrite_ctx goes on to the following
\* groups with that path.
C8_LastStopsGroup ==
    [][(pc = "ret" /\ exit = "last") =>
          /\ g_result = Uri(join_query(uri, query))
          /\ applied' = applied
          /\ pc' = "engine" /\ gi' = gi + 1 /\ e_uri' = join_query(uri, query)]_vars

\* C9: when the rule applied at index i carries Skip(n), the cursor becomes
\* i + 1 + n and the loop goes on: the next pass applies no rule below that
\* index and works on the rewritten path; a pass whose cursor is past the
\* end of the rule list applies no rule and ends the loop as a pass without
\* a match does.
C9_SkipAdvances ==
    /\ [](InGroup =>
            \A k \in 1..(Len(AppliedHere) - 1) :
                LET sh == shift(Rules[AppliedHere[k].index + 1])
                IN (~sh.none /\ sh.flag.name = "Skip") =>
                      /\ AppliedHere[k + 1].pass = AppliedHere[k].pass + 1
                      /\ AppliedHere[k + 1].cursor = AppliedHere[k].index + 1 + sh.flag.arg
                      /\ AppliedHere[k + 1].index >= AppliedHere[k].index + 1 + sh.flag.arg
                      /\ AppliedHere[k + 1].before = AppliedHere[k].after)
    /\ [][PassStep =>
            /\ (next_index >= Len(Rules)) =>
                  (applied' = applied /\ pc' = "after" /\ exit' = "nomatch" /\ uri' = uri)
            /\ (Len(applied') > Len(applied)) =>
                  LET e == applied'[Len(applied')]
                      sh == shift(Rules[e.index + 1])
                  IN (~sh.none /\ sh.flag.name = "Skip") =>
                        (next_index' = e.index + 1 + sh.flag.arg /\ pc' = "loop"
                         /\ uri' = e.after)]_vars

\* C9 witness: Skip(1) matched at index 0, the rule at index 1 matches the
\* rewritten path and was not applied, the next pass applied the rule at
\* index 2.
C9_Witness ==
    /\ InGroup
    /\ Len(Rules) >= 3
    /\ \E k \in 1..(Len(AppliedHere) - 1) :
          /\ AppliedHere[k].index = 0
          /\ HasShift(Rules[1], "Skip")
          /\ ~captures(Rules[2].pattern, AppliedHere[k].after).none
          /\ AppliedHere[k + 1].index = 2

\* C10: when the rule applied carries Next, the cursor becomes 0 and the
\* loop goes on: the next pass scans from index 0 on the rewritten path.
C10_NextRestarts ==
    /\ [](InGroup =>
            \A k \in 1..(Len(AppliedHere) - 1) :
                HasShift(Rules[AppliedHere[k].index + 1], "Next") =>
                    /\ AppliedHere[k + 1].pass = AppliedHere[k].pass + 1
                    /\ AppliedHere[k + 1].cursor = 0
                    /\ AppliedHere[k + 1].before = AppliedHere[k].after)
    /\ [][(PassStep /\ Len(applied') > Len(applied)) =>
            LET e == applied'[Len(applied')]
            IN HasShift(Rules[e.index + 1], "Next") =>
                  (next_index' = 0 /\ pc' = "loop" /\ uri' = e.after)]_vars

\* C10 witness: after a Next-flagged rule, one pass applied a rule before it
\* and another pass applied the Next-flagged rule itself again.
C10_Witness ==
    /\ InGroup
    /\ \E k \in 1..(Len(AppliedHere) - 1) :
          /\ HasShift(Rules[AppliedHere[k].index + 1], "Next")
          /\ AppliedHere[k + 1].index < AppliedHere[k].index
    /\ \E k \in 1..(Len(AppliedHere) - 1) :
          /\ HasShift(Rules[AppliedHere[k].index + 1], "Next")
          /\ AppliedHere[k + 1].index = AppliedHere[k].index

\* C11: when the rule applied in a pass carries Status(code), the group
\* returns StatusCode(code) with no path and no query; when it carries
\* Redirect(code), it returns Redirect(rewritten path, code) with the query
\* re-attached; in both cases no later rule is applied.
C11_ResolveReturns ==
    /\ [](\A a \in 1..Len(applied) :
            HasKind(groups[applied[a].group].rules[applied[a].index + 1], "Resolve")
                => a = Len(applied) /\ pc \in {"ret", "done"})
    /\ [][(PassStep /\ Len(applied') > Len(applied)) =>
            LET e == applied'[Len(applied')]
                rs == resolve(Rules[e.index + 1])
            IN (~rs.none) =>
                  /\ pc' = "ret"
                  /\ rs.flag.name = "Status" =>
                        g_result' = [tag |-> "StatusCode", uri |-> <<>>, sc |-> rs.flag.arg]
                  /\ rs.flag.name = "Redirect" =>
                        g_result' = [tag |-> "Redirect", sc |-> rs.flag.arg,
                                     uri |-> join_query(e.after, query)]]_vars

\* C11 witness: a Redirect rule ended the run with a query to re-attach,
\* although a later group matches too.
C11_Witness ==
    /\ pc = "done"
    /\ result.tag = "Redirect"
    /\ query # <<>>
    /\ gi < Len(groups)
    /\ match_conditions(groups[gi + 1], ctx)

\* C12: when a rule whose rewrite target is the literal "-" matches, the
\* path after the rule equals the path before it, and the rule's flags take
\* effect as they do for any rule.
C12_DashKeepsPath ==
    [][(PassStep /\ Len(applied') > Len(applied)) =>
          LET e == applied'[Len(applied')]
              rule == Rules[e.index + 1]
              out == rule_outcome(rule, uri, query)
          IN rule.rewrite = <<"-">> =>
                /\ e.after = e.before
                /\ uri' = uri
                /\ next_index' = shifted_index(rule, e.index)
                /\ g_result' = out.value
                /\ pc' = CASE out.do = "continue" -> "loop"
                           [] out.do = "break" -> "after"
                           [] out.do = "return" -> "ret"]_vars

RECURSIVE Flatten(_)
\* The expressions of the groups of a list, in the order of the text.
Flatten(list) == IF list = <<>> THEN <<>> ELSE Head(list) \o Flatten(Tail(list))

\* The groups the last successful add_rules appended.
NewGroups == SubSeq(groups, Len(groups) - Len(load.result.v) + 1, Len(groups))

\* C13: the enabled flag of every group built from a rule text equals the
\* state of the most recent RewriteEngine directive at or before the start of
\* the group in the text, enabled when there is none.
C13_EnabledFollowsState ==
    (load.text # <<>> /\ load.result.ok) =>
        \A k \in 1..Len(load.result.v) :
            LET states == SelectSeq(Flatten(SubSeq(load.result.v, 1, k)),
                                    LAMBDA e : e.kind = "State")
            IN NewGroups[k].enabled = (states = <<>> \/ states[Len(states)].state = "On")

\* The lines of the text that are no comments, and among them the positions
\* of the lines that are not blank.
Kept(text) == SelectSeq(text, LAMBDA l : ~(l # <<>> /\ l[1] \in CommentTokens))
ExprLines(text) == {j \in 1..Len(Kept(text)) : Kept(text)[j] # <<>>}
\* The position in Kept(text) of the i-th expression.
ExprLine(text, i) ==
    CHOOSE j \in ExprLines(text) : Cardinality({m \in ExprLines(text) : m < j}) = i - 1
\* The group of the list that holds the i-th expression.
GroupOf(list, i) ==
    CHOOSE k \in 1..Len(list) :
        Len(Flatten(SubSeq(list, 1, k - 1))) < i /\ i <= Len(Flatten(SubSeq(list, 1, k)))

\* C14: ExpressionList::from_str keeps the expressions of the lines in order,
\* in groups that are not empty; a new group starts between two expressions
\* exactly when a blank line lies between them, or the second is a State, or
\* the second is a Condition and the first a Rule; a line starting with "//"
\* is skipped and closes no group.
C14_Grouping ==
    (load.text # <<>> /\ load.result.ok) =>
        LET list == load.result.v
            n == Cardinality(ExprLines(load.text))
            e(i) == Expression_from_str(Kept(load.text)[ExprLine(load.text, i)]).v
        IN /\ Flatten(list) = [i \in 1..n |-> e(i)]
           /\ \A k \in 1..Len(list) : list[k] # <<>>
           /\ \A i \in 1..(n - 1) :
                 (GroupOf(list, i + 1) # GroupOf(list, i)) <=>
                     \/ ExprLine(load.text, i + 1) > ExprLine(load.text, i) + 1
                     \/ e(i + 1).kind = "State"
                     \/ e(i + 1).kind = "Condition" /\ e(i).kind = "Rule"

\* C14 witness: a rule, a comment, a condition: the comment is skipped, so
\* the condition directly follows the rule and starts the second group.
C14_Witness ==
    /\ load.result.ok
    /\ Len(load.text) = 3
    /\ load.text[2] # <<>> /\ load.text[2][1] \in CommentTokens
    /\ Len(load.result.v) = 2
    /\ load.result.v[1][1].kind = "Rule"
    /\ load.result.v[2][1].kind = "Condition"

\* C15: a flag list that parses has at most one Shift flag, at most one
\* Resolve flag and never both; a bracketed list of valid flags that holds
\* two or more Shift or Resolve flags fails with FlagsMutuallyExclusive, in
\* any order and with any number of Mod flags mixed in.
C15_FlagsExclusive ==
    (call.fn = "RuleFlagList::from_str" /\ call.done) =>
        LET s == call.arg
            items == flag_items(s)
            parsed == [i \in 1..Len(items) |-> RuleFlag_from_str(items[i])]
            held(kind) == Cardinality({i \in 1..Len(items) : parsed[i].v.kind = kind})
            got(kind) ==
                Cardinality({i \in 1..Len(call.ret.v) : call.ret.v[i].kind = kind})
        IN /\ call.ret.ok => got("Shift") + got("Resolve") <= 1
           /\ (/\ Head(s) = "[" /\ s[Len(s)] = "]"
               /\ \A i \in 1..Len(items) : parsed[i].ok
               /\ held("Shift") + held("Resolve") >= 2)
                 => call.ret = Err("FlagsMutuallyExclusive")

\* C15 witness: a Resolve flag, a Mod flag and a Shift flag, in this order,
\* failed with FlagsMutuallyExclusive.
C15_Witness ==
    /\ call.fn = "RuleFlagList::from_str" /\ call.done
    /\ call.ret = Err("FlagsMutuallyExclusive")
    /\ LET items == flag_items(call.arg)
       IN /\ Len(items) = 3
          /\ RuleFlag_from_str(items[1]).v.kind = "Resolve"
          /\ RuleFlag_from_str(items[2]).v.kind = "Mod"
          /\ RuleFlag_from_str(items[3]).v.kind = "Shift"

\* The path p with the query q attached as C16 says.
C16_Attached(p, q) ==
    IF q = <<>> THEN p
    ELSE IF \E i \in 1..Len(p) : p[i] = "?" THEN p \o <<"&">> \o q
    ELSE p \o <<"?">> \o q

\* C16: the query of the input uri, the text after its first "?", is removed
\* before rules are matched, and is attached again to the path of a Uri,
\* EndUri or Redirect result: with "?" when the path holds no "?", with "&"
\* when it holds one, not at all when the query is empty.
C16_QueryReattached ==
    /\ pc # "idle" =>
          /\ \A i \in 1..Len(InputPath) : InputPath[i] # "?"
          /\ input = IF \E i \in 1..Len(input) : input[i] = "?"
                     THEN InputPath \o <<"?">> \o InputQuery ELSE InputPath
          /\ e_query = InputQuery
          /\ applied # <<>> => applied[1].before = InputPath
    /\ (pc = "done" /\ result.tag \in {"Uri", "EndUri", "Redirect"}) =>
          result.uri = C16_Attached(IF result.tag = "Uri" THEN e_uri
                                    ELSE calls[Len(calls)].result.uri, InputQuery)
    /\ (pc = "ret" /\ g_result.tag \in {"Uri", "EndUri", "Redirect"}) =>
          g_result.uri = C16_Attached(uri, query)

\* C16 witness: the input had a query and the rewritten path holds a "?" of
\* its own, so the result is the path, "&" and the query.
C16_Witness ==
    /\ pc = "done"
    /\ result.tag = "Uri"
    /\ InputQuery # <<>>
    /\ applied # <<>>
    /\ \E i \in 1..Len(e_uri) : e_uri[i] = "?"
    /\ result.uri = e_uri \o <<"&">> \o InputQuery

\* C17: when a line of the text fails to parse, add_rules returns the error
\* and leaves the group list as it was; on success the groups of the text
\* are appended after the groups the engine had, which do not change.
C17_AllOrNothing ==
    [][load' # load =>
          LET t == load'.text
              fails == \E j \in 1..Len(Kept(t)) :
                           Kept(t)[j] # <<>> /\ ~Expression_from_str(Kept(t)[j]).ok
          IN /\ load'.result.ok = ~fails
             /\ fails => groups' = groups
             /\ ~fails =>
                   /\ Len(groups') = Len(groups) + Len(load'.result.v)
                   /\ SubSeq(groups', 1, Len(groups)) = groups
                   /\ \A k \in 1..Len(load'.result.v) :
                         groups'[Len(groups) + k] = ExprGroup_new(load'.result.v[k])]_vars

\* C17 witness: a text whose first line is a rule and whose last line does
\* not parse was given to an engine that had groups, also from an earlier
\* call of add_rules.
C17_Witness ==
    /\ ~load.result.ok
    /\ Len(load.text) >= 2
    /\ Expression_from_str(load.text[1]).ok
    /\ Expression_from_str(load.text[1]).v.kind = "Rule"
    /\ load.lines > Len(load.text)
    /\ Len(groups) >= 2

\* C18: evaluating never changes the engine: the group list and every
\* group's conditions, rules, enabled flag and max_iterations stay as they
\* are, and in every interleaving of the evaluations of several threads,
\* each with its own EngineCtx, every evaluation returns the result it
\* returns when it runs alone.
C18_ReadOnlyEngine ==
    /\ [][groups' = groups]_vars
    /\ [](\A t \in DOMAIN th :
            th[t].pc = "done" =>
                th[t].result = rewrite_alone(groups, Evaluation(th[t].input, th[t].ctx)))

\* C18 witness: two threads have evaluated the same uri on one engine, each
\* while the other was running, and with their different EngineCtx values
\* the first was redirected and the second was not.
C18_Witness ==
    /\ Len(th) >= 2
    /\ \A t \in {1, 2} : th[t].pc = "done" /\ th[t].overlapped
    /\ th[1].input = th[2].input
    /\ th[1].ctx # th[2].ctx
    /\ th[1].result.tag = "Redirect"
    /\ th[2].result.tag = "Uri"

\* The integer an operand of the model denotes under a context, None when
\* it denotes none: it is no decimal number, or it is out of the range of i32.
C19_Denotes(v, c) ==
    LET int(n) == [none |-> FALSE, v |-> n]
    IN CASE v = PortRef ->
              (IF c = <<>> THEN None
               ELSE IF c[1].server_port.s = <<"4", "0", "0", "1">> THEN int(4001)
               ELSE int(3999))
         [] v = <<"4", "0", "0", "0">> -> int(4000)
         [] v = <<"-", "1">> -> int(0 - 1)
         [] v = <<"+", "7">> -> int(7)
         [] v = <<"2", "1", "4", "7", "4", "8", "3", "6", "4", "7">> -> int(I32Max)
         [] v = <<"-", "2", "1", "4", "7", "4", "8", "3", "6", "4", "8">> ->
              int(0 - I32Max - 1)
         [] OTHER -> None

\* C19: an integer comparison is false when an operand, after its
\* variables are resolved, is no 32-bit signed integer, for every
\* comparator; otherwise it is the arithmetic comparison.
C19_CompareI32 ==
    (call.fn = "Condition::is_met" /\ call.done) =>
        LET a == C19_Denotes(call.arg.v1, call.arg.ctx)
            b == C19_Denotes(call.arg.v2, call.arg.ctx)
            cp == call.arg.cp
        IN call.ret =
              IF a.none \/ b.none THEN FALSE
              ELSE CASE cp = "Equal" -> a.v = b.v
                     [] cp = "GreaterThan" -> a.v > b.v
                     [] cp = "GreaterOrEqual" -> a.v >= b.v
                     [] cp = "LesserThan" -> a.v < b.v
                     [] cp = "LesserOrEqual" -> a.v <= b.v
                     [] cp = "NotEqual" -> a.v # b.v

\* C19 witness: %{SERVER_PORT} -ne 4000 is false without a provider of the
\* port.
C19_Witness ==
    /\ call.fn = "Condition::is_met" /\ call.done
    /\ call.arg.v1 = PortRef
    /\ call.arg.v2 = <<"4", "0", "0", "0">>
    /\ call.arg.cp = "NotEqual"
    /\ call.arg.ctx = <<>>
    /\ ~call.ret

\* C20: on a second token that begins, after an optional "!", with "<", ">"
\* or "=", Match::parse gives a pattern matcher whose operator is the longest
\* of "<=", ">=", "<", ">", "=" at the start of the token and whose right
\* operand is the text after the operator; NotPattern with the "!", Pattern
\* without.
C20_PatternOperator ==
    (call.fn = "Match::parse" /\ call.done /\ Len(call.arg) >= 2) =>
        LET tok == call.arg[2]
            not == tok # <<>> /\ Head(tok) = "!"
            body == IF not THEN Tail(tok) ELSE tok
            two == Len(body) >= 2 /\ body[1] \in {"<", ">"} /\ body[2] = "="
            op == IF two THEN SubSeq(body, 1, 2) ELSE SubSeq(body, 1, 1)
        IN (body # <<>> /\ body[1] \in {"<", ">", "="}) =>
              call.ret =
                  Ok(Match(IF not THEN "NotPattern" ELSE "Pattern",
                           call.arg[1],
                           CASE op = <<"<", "=">> -> "PreceedsOrEquals"
                             [] op = <<">", "=">> -> "FollowsOrEquals"
                             [] op = <<"<">> -> "Preceeds"
                             [] op = <<">">> -> "Follows"
                             [] op = <<"=">> -> "Equals",
                           SubSeq(body, Len(op) + 1, Len(body))))

\* C21: with the NoCase flag the pattern test of a condition compares the
\* two resolved operands ignoring letter case, for the prefix, the suffix
\* and the equality operators and their or-equals variants; without the
\* flag it compares them as they are.
C21_NoCasePattern ==
    (call.fn = "Condition::is_met pattern" /\ call.done) =>
        LET nocase == \E i \in 1..Len(call.arg.flags) : call.arg.flags[i] = "NoCase"
            fold(s) == IF nocase THEN to_lowercase(s) ELSE s
            a == fold(replace_all(call.arg.ctx, call.arg.v1))
            b == fold(replace_all(call.arg.ctx, call.arg.v2))
            met == CASE call.arg.pt \in {"Preceeds", "PreceedsOrEquals"} ->
                          Len(b) <= Len(a) /\ SubSeq(a, 1, Len(b)) = b
                     [] call.arg.pt \in {"Follows", "FollowsOrEquals"} ->
                          Len(b) <= Len(a) /\ SubSeq(a, Len(a) - Len(b) + 1, Len(a)) = b
                     [] call.arg.pt = "Equals" -> a = b
        IN call.ret = (IF call.arg.not THEN ~met ELSE met)

\* The operand expr from position i on, with every reference replaced by the
\* value EngineCtx::fill gives for its name, in one pass from left to right.
RECURSIVE C22_Substituted(_, _, _)
C22_Substituted(ctx0, expr, i) ==
    IF i > Len(expr) THEN <<>>
    ELSE LET n == MatcherAt(expr, i)
         IN IF n = 0 THEN <<expr[i]>> \o C22_Substituted(ctx0, expr, i + 1)
            ELSE fill(ctx0, SubSeq(expr, i + 2, i + n - 2))
                     \o C22_Substituted(ctx0, expr, i + n)

\* C22: replace_all replaces every %{IDENT} reference of the operand by the
\* value of the first provider, in registration order, whose fill returns
\* one for IDENT, and by the empty text when no provider does; the text
\* outside the references stays as it is.
C22_ReplaceAll ==
    (call.fn = "EngineCtx::replace_all" /\ call.done) =>
        call.ret = C22_Substituted(call.arg.ctx, call.arg.expr, 1)

\* C23: with an EnvCtx in the EngineCtx and the variable N set to v, the
\* operand %{ENV:N} is resolved to v; and the value of the first successful
\* lookup of a key is the value of every later lookup of that key on the
\* same provider.
C23_EnvResolved ==
    /\ (/\ call.fn = "EngineCtx::replace_all" /\ call.done
        /\ call.arg.expr = EnvRef
        /\ call.arg.ctx # <<>>
        /\ "vars" \in DOMAIN call.arg.ctx[1]
        /\ <<<<"N">>, <<"v">>>> \in call.arg.ctx[1].vars) => call.ret = <<"v">>
    /\ (call.fn = "EnvCtx::fill" /\ call.done /\ ~call.ret[1].none) =>
           call.ret[2] = call.ret[1]

\* The position of the quote that closes the quoted text opened before
\* position j of s: the first one at or after j that equals quote and
\* follows an even number of backslashes; 0 when there is none.
C24_Close(s, j, quote) ==
    LET even(k) ==
            LET run == {n \in 0..(k - j) :
                           \A m \in (k - n)..(k - 1) : s[m] = "\\"}
            IN (CHOOSE n \in run : \A m \in run : n >= m) % 2 = 0
        ends == {k \in j..Len(s) : s[k] = quote /\ even(k)}
    IN IF ends = {} THEN 0 ELSE CHOOSE k \in ends : \A m \in ends : k <= m

\* The tokens of s from position i on, in input order: cur is the run of
\* characters outside quotes read so far.
RECURSIVE C24_Tokens(_, _, _)
C24_Tokens(s, i, cur) ==
    LET flush == IF cur = <<>> THEN <<>> ELSE <<cur>>
    IN IF i > Len(s) THEN Ok(flush)
       ELSE IF s[i] = " "
       THEN LET rest == C24_Tokens(s, i + 1, <<>>)
            IN IF rest.ok THEN Ok(flush \o rest.v) ELSE rest
       ELSE IF s[i] \in {"'", "\""}
       THEN LET k == C24_Close(s, i + 1, s[i])
                rest == C24_Tokens(s, k + 1, <<>>)
            IN IF k = 0 THEN Err("UnclosedQuotation")
               ELSE IF rest.ok THEN Ok(flush \o <<SubSeq(s, i + 1, k - 1)>> \o rest.v)
               ELSE rest
       ELSE C24_Tokens(s, i + 1, Append(cur, s[i]))

\* C24: tokenize returns the tokens of the line in input order, one for
\* every maximal run of characters outside quotes and one for every quoted
\* text; no character outside the quote delimiters is dropped or moved; it
\* fails with UnclosedQuotation exactly when an opening quote has no closing
\* quote.
C24_Tokenize ==
    (call.fn = "tokenize" /\ call.done /\ call.ret.out # Panic) =>
        call.ret.out = C24_Tokens(call.arg.s, 1, <<>>)

\* C27: tokenize terminates on every text and does not abort: no turn of
\* its while loop panics, and every turn that does not return moves the
\* index forward.
C27_TokenizeTerminates ==
    (call.fn = "tokenize" /\ ~call.done) =>
        LET st == tokenize_step(call.arg.s, call.arg.build, call.ret)
        IN /\ st.out # Panic
           /\ st.running => st.index > call.ret.index

\* The text s with every character of the reserved set replaced by its
\* percent code.
C25_Encoded(s) ==
    LET code(c) == IF c \in DOMAIN ESCAPE THEN ESCAPE[c] ELSE <<c>>
        RECURSIVE cat(_)
        cat(t) == IF t = <<>> THEN <<>> ELSE code(Head(t)) \o cat(Tail(t))
    IN cat(s)

\* C25: try_rewrite returns None for a uri the pattern does not match; for
\* a uri it matches it returns the template with every positional or named
\* back-reference replaced by the captured text, percent-encoded unless the
\* rule has NoEscape, and with the text outside the back-references as it
\* is in the template.
C25_TryRewrite ==
    (call.fn = "Rule::try_rewrite" /\ call.done) =>
        LET p == call.arg.rule.pattern
            u == call.arg.uri
            t == call.arg.rule.rewrite
            at == {i \in 1..(Len(u) - Len(p.lit) + 1) :
                      SubSeq(u, i, i + Len(p.lit) - 1) = p.lit /\ (p.anchor => i = 1)}
            first == CHOOSE i \in at : \A j \in at : i <= j
            captured == SubSeq(u, first + Len(p.lit), Len(u))
            ne == \E i \in 1..Len(call.arg.rule.flags) :
                      call.arg.rule.flags[i] = Flag("Mod", "NoEscape", 0)
            refers(x) == p.cap /\ (x = "$1" \/ (x = "$name" /\ p.name = "name"))
            piece(x) == IF refers(x) THEN (IF ne THEN captured ELSE C25_Encoded(captured))
                        ELSE IF x \in {"$1", "$name"} THEN <<>>
                        ELSE <<x>>
            RECURSIVE out(_)
            out(k) == IF k > Len(t) THEN <<>> ELSE piece(t[k]) \o out(k + 1)
        IN IF at = {} THEN call.ret = None
           ELSE call.ret = [none |-> FALSE, s |-> out(1)]

\* C25 witness: the rule  /b(.*) /i?p=$1  has rewritten /b/c&d=e: the
\* captured text is percent-encoded and the template keeps its ? and =.
C25_Witness ==
    /\ call.fn = "Rule::try_rewrite" /\ call.done
    /\ call.arg.rule.flags = <<>>
    /\ call.arg.uri = <<"/", "b", "/", "c", "&", "d", "=", "e">>
    /\ call.ret = [none |-> FALSE,
                   s |-> <<"/", "i", "?", "p", "=", "%", "2", "F", "c", "%", "2", "6", "d",
                           "%", "3", "D", "e">>]

\* C26: every group of ExpressionList::from_str is not empty, holds a State
\* only as its first element and no Condition after a Rule; the groups
\* joined in order are the expressions of the lines that are neither blank
\* nor comments, in line order, none lost and none twice.
C26_GroupShape ==
    (load.text # <<>> /\ load.result.ok) =>
        LET list == load.result.v
            lines == SelectSeq(Kept(load.text), LAMBDA l : l # <<>>)
        IN /\ \A k \in 1..Len(list) :
                 /\ Len(list[k]) >= 1
                 /\ \A i \in 2..Len(list[k]) : list[k][i].kind # "State"
                 /\ \A i \in 1..Len(list[k]) :
                       list[k][i].kind = "Rule" =>
                           \A j \in (i + 1)..Len(list[k]) : list[k][j].kind # "Condition"
           /\ Len(Flatten(list)) = Len(lines)
           /\ \A i \in 1..Len(lines) : Ok(Flatten(list)[i]) = Expression_from_str(lines[i])

\* C26 witness: a rule, a RewriteEngine line and a rule: the State starts
\* the second group and the rule after it stays with it.
C26_Witness ==
    /\ load.result.ok
    /\ Len(load.text) = 3
    /\ Len(load.result.v) = 2
    /\ load.result.v[1][1].kind = "Rule"
    /\ Len(load.result.v[2]) = 2
    /\ load.result.v[2][1].kind = "State"
    /\ load.result.v[2][2].kind = "Rule"

\* C28: after Engine::max_iterations(n) every group of the engine has the
\* bound n, in any order of the configuration calls: the groups that
\* add_rules appends after the call have it too.
C28_BoundKept ==
    load.configured >= 0 =>
        \A i \in 1..Len(groups) : groups[i].max_iterations = load.configured

\* C29: a substituted value that holds text of the form %{NAME} appears in
\* the result as it is, whatever other references the operand holds.
C29_NoSecondSubstitution ==
    (call.fn = "EngineCtx::replace_all" /\ call.done) =>
        LET keys == find_iter(call.arg.expr, 1)
        IN \A k \in 1..Len(keys) :
              LET v == fill(call.arg.ctx, trim_matches(keys[k]))
              IN find_iter(v, 1) # <<>> => Find(call.ret, v) > 0

\* C30: when no rule of an enabled group whose conditions are met matches
\* the path, and every group has max_iterations >= 1, the evaluation returns
\* Uri(u) with u the input uri, query included; an engine without groups
\* returns every uri as it is.
C30_NoMatchIdentity ==
    (/\ pc = "done"
     /\ \A i \in 1..Len(groups) :
           /\ groups[i].max_iterations >= 1
           /\ match_conditions(groups[i], ctx) =>
                 \A j \in 1..Len(groups[i].rules) :
                     captures(groups[i].rules[j].pattern, InputPath).none)
        => result = Uri(input)

====
